---------------------------- MODULE Spec2Model ----------------------------
(***************************************************************************)
(* Model of the request execution core of PyFetch                          *)
(* (src/PyFetch/http_client.py): HTTPClient.make_request with its retry     *)
(* loop and exception mapping, _create_progress_bar and _stream_response.   *)
(*                                                                         *)
(* Strings that the code converts (method.upper(), int(header)) are        *)
(* sequences of one-character strings so that the conversion is computed.  *)
(* The transport (requests.request) is the environment: each attempt it    *)
(* either returns a response or raises an exception, chosen with \E.       *)
(***************************************************************************)
EXTENDS Integers, Sequences, FiniteSets, TLC

VARIABLES
    client,        \* the HTTPClient instance: its attributes set by __init__
    pc,            \* position of the make_request call
    method,        \* make_request argument
    url,           \* make_request argument
    kwargs,        \* make_request **kwargs (only the stream option is modelled)
    attempt,       \* loop variable of "for attempt in range(self.retries)"
    response,      \* local of make_request: the response of the current attempt
    progress_bar,  \* local of make_request: 0 (None) or index into bars
    bars,          \* every tqdm reporter instantiated so far
    content,       \* local buffer of _stream_response
    yielded,       \* chunks response.iter_content has yielded in this attempt
    requests_log,  \* one entry per call of requests.request
    result,        \* what make_request surfaced to its caller
    stdout,        \* lines printed
    cli            \* the command-line program around the client (cli.py, __main__.py)

vars == << client, pc, method, url, kwargs, attempt, response, progress_bar,
           bars, content, yielded, requests_log, result, stdout, cli >>

----------------------------------------------------------------------------
(* Bounds of the model *)

MaxRetries == 2

MaxChunks == 2

\* the count of ended calls the caller keeps is capped here
MaxCounted == 2

\* how far below zero the retry budget of a client is taken
MaxDeficit == 2

(* Inputs the environment draws from *)

Letters ==
    [a |-> "A", b |-> "B", c |-> "C", d |-> "D", e |-> "E", f |-> "F",
     g |-> "G", h |-> "H", i |-> "I", j |-> "J", k |-> "K", l |-> "L",
     m |-> "M", n |-> "N", o |-> "O", p |-> "P", q |-> "Q", r |-> "R",
     s |-> "S", t |-> "T", u |-> "U", v |-> "V", w |-> "W", x |-> "X",
     y |-> "Y", z |-> "Z"]

\* str.upper() on one character
UpperChar(ch) == IF ch \in DOMAIN Letters THEN Letters[ch] ELSE ch

\* str.upper()
Upper(str) == [idx \in 1..Len(str) |-> UpperChar(str[idx])]

GET == << "G", "E", "T" >>

MethodInputs ==
    { GET, << "g", "e", "t" >>, << "P", "O", "S", "T" >>,
      << "T", "R", "A", "C", "E" >> }

UrlInputs == { "https://a.test/x", "https://b.test/y" }

\* the stream option the caller passes in **kwargs, "unset" when it passes none
StreamInputs == { "unset", "False" }

Causes == { "cause1", "cause2" }

\* chunks response.iter_content may yield (bytes as sequences of numbers)
ChunkInputs == { << >>, << 1 >>, << 2, 3 >> }

\* bodies of responses read eagerly by the transport
BodyInputs == { << >>, << 7 >> }

StatusInputs == { 200, 400, 599 }

\* values of the content-length response header
ContentLengthInputs ==
    { << "0" >>,
      << "1", "0", "4", "8", "5", "7", "6" >>,
      << "4", "1", "9", "4", "3", "0", "4" >>,
      << "5", "2", "4", "2", "8", "8", "0" >>,
      << "6", "2", "9", "1", "4", "5", "6" >>,
      << "1", "2", "x" >> }

\* response headers, as (name, value) pairs
HeaderInputs ==
    { << >> } \cup { << << "content-length", v >> >> : v \in ContentLengthInputs }

----------------------------------------------------------------------------
(* Exception classes.  The classes of requests.exceptions and their bases, *)
(* as far as the except clauses of make_request distinguish them.          *)

Bases(cls) ==
    CASE cls = "ConnectionError"      -> { "ConnectionError", "RequestException", "Exception" }
      [] cls = "ConnectTimeout"       -> { "ConnectTimeout", "ConnectionError", "Timeout",
                                           "RequestException", "Exception" }
      [] cls = "HTTPError"            -> { "HTTPError", "RequestException", "Exception" }
      [] cls = "ReadTimeout"          -> { "ReadTimeout", "Timeout", "RequestException", "Exception" }
      [] cls = "ChunkedEncodingError" -> { "ChunkedEncodingError", "RequestException", "Exception" }
      [] cls = "HTTPClientError"      -> { "HTTPClientError", "Exception" }
      [] cls = "ValueError"           -> { "ValueError", "Exception" }
      [] cls = "KeyboardInterrupt"    -> { "KeyboardInterrupt" }
      [] OTHER                        -> { cls }

\* isinstance(e, base)
IsInstance(e, base) == base \in Bases(e.cls)

NoExc == [ cls |-> "none", msg |-> "", status |-> 0 ]

Exc(cls, msg) == [ cls |-> cls, msg |-> msg, status |-> 0 ]

\* exceptions requests.request may raise
TransportExceptions ==
    { Exc("ConnectionError", msg) : msg \in Causes }
      \cup { Exc("ConnectTimeout", "cause1"),
             Exc("ReadTimeout", "cause1"),
             Exc("HTTPClientError", "cause1"),
             Exc("KeyboardInterrupt", "") }

\* exceptions response.iter_content may raise while the body is read
StreamExceptions ==
    { Exc("ChunkedEncodingError", "cause1"), Exc("ConnectionError", "cause2"),
      Exc("KeyboardInterrupt", "") }

----------------------------------------------------------------------------
(* HTTPClient.__init__ *)

\* variant: one verb too many in the list
allowed_methods_WithTrace ==
    << GET, << "P", "O", "S", "T" >>, << "P", "U", "T" >>,
       << "P", "A", "T", "C", "H" >>, << "D", "E", "L", "E", "T", "E" >>,
       << "H", "E", "A", "D" >>, << "O", "P", "T", "I", "O", "N", "S" >>,
       << "T", "R", "A", "C", "E" >> >>

allowed_methods ==
    << GET, << "P", "O", "S", "T" >>, << "P", "U", "T" >>,
       << "P", "A", "T", "C", "H" >>, << "D", "E", "L", "E", "T", "E" >>,
       << "H", "E", "A", "D" >>, << "O", "P", "T", "I", "O", "N", "S" >> >>

MIN_SIZE_FOR_PROGRESS == 5 * 1024 * 1024

NewClient(timeout, retries, verbose, show_progress) ==
    [ timeout               |-> timeout,
      retries               |-> retries,
      verbose               |-> verbose,
      show_progress         |-> show_progress,
      allowed_methods       |-> allowed_methods,
      MIN_SIZE_FOR_PROGRESS |-> MIN_SIZE_FOR_PROGRESS ]

None == [ kind |-> "None" ]

\* no command-line program: the client is used as a library
NoCli == [ pc |-> "library" ]

\* a client just constructed, no call made yet
Constructed ==
    /\ pc = "idle"
    /\ method = << >>
    /\ url = ""
    /\ kwargs = [ stream |-> "unset" ]
    /\ attempt = 0
    /\ response = None
    /\ progress_bar = 0
    /\ bars = << >>
    /\ content = << >>
    /\ yielded = << >>
    /\ requests_log = << >>
    /\ result = [ kind |-> "pending" ]
    /\ stdout = << >>

Init ==
    /\ \E retries \in 0..MaxRetries, verbose \in BOOLEAN, show_progress \in BOOLEAN :
          client = NewClient(30, retries, verbose, show_progress)
    /\ Constructed
    /\ cli = NoCli


----------------------------------------------------------------------------
(* Helpers of make_request *)

\* str(e): the text of an exception
Str(e) ==
    IF e.cls = "HTTPError"
    THEN << ToString(e.status), e.msg >>
    ELSE << e.msg >>

\* "method.upper() not in self.allowed_methods", negated
IsAllowed(m, allowed) == \E idx \in 1..Len(allowed) : allowed[idx] = Upper(m)

\* 'method.upper() == "GET"'
IsGet(m) == Upper(m) = GET

\* variant: the loop body runs once before the budget is looked at
HasNextAttempt_AtLeastOnce(att, retries) == att < retries \/ att = 0

\* variant: range(self.retries + 1)
HasNextAttempt_OneMore(att, retries) == att <= retries

\* range(self.retries) still has a value for the loop variable
HasNextAttempt(att, retries) == att < retries

\* variant: "attempt == self.retries"
IsLastAttempt_OffByOne(att, retries) == att = retries

\* "attempt == self.retries - 1"
IsLastAttempt(att, retries) == att = retries - 1

\* variant: only server errors raise
IsHTTPErrorStatus_ServerOnly(status) == 500 <= status /\ status < 600

\* response.raise_for_status(): the statuses for which it raises HTTPError
IsHTTPErrorStatus(status) == 400 <= status /\ status < 600

\* the HTTPError raise_for_status raises
HTTPErrorOf(status) ==
    [ cls    |-> "HTTPError",
      msg    |-> IF status < 500 THEN " Client Error" ELSE " Server Error",
      status |-> status ]

\* variant: the last clause is a bare "except:"
Handler_BareExcept(e) ==
    IF IsInstance(e, "ConnectionError") THEN "ConnectionError"
    ELSE IF IsInstance(e, "HTTPError") THEN "HTTPError"
    ELSE "RequestException"

\* variant: the last clause written "except Exception"
Handler_AnyException(e) ==
    IF IsInstance(e, "ConnectionError") THEN "ConnectionError"
    ELSE IF IsInstance(e, "HTTPError") THEN "HTTPError"
    ELSE IF IsInstance(e, "Exception") THEN "RequestException"
    ELSE "none"

\* variant: the RequestException clause written first
Handler_GeneralFirst(e) ==
    IF IsInstance(e, "RequestException") THEN "RequestException"
    ELSE IF IsInstance(e, "ConnectionError") THEN "ConnectionError"
    ELSE IF IsInstance(e, "HTTPError") THEN "HTTPError"
    ELSE "none"

\* the except clause of the try statement that catches e; "none" when e
\* passes all three
Handler(e) ==
    IF IsInstance(e, "ConnectionError") THEN "ConnectionError"
    ELSE IF IsInstance(e, "HTTPError") THEN "HTTPError"
    ELSE IF IsInstance(e, "RequestException") THEN "RequestException"
    ELSE "none"

\* variant: the connection clause reports without the cause
Wrapped_NoCause(e, u) ==
    CASE Handler(e) = "ConnectionError" ->
            [ kind    |-> "raised",
              cls     |-> "HTTPConnectionError",
              message |-> << "Failed to connect to ", u >>,
              cause   |-> e ]
      [] Handler(e) = "HTTPError" ->
            [ kind    |-> "raised",
              cls     |-> "ResponseError",
              message |-> << "HTTP error occurred: " >> \o Str(e),
              cause   |-> e ]
      [] Handler(e) = "RequestException" ->
            [ kind    |-> "raised",
              cls     |-> "HTTPClientError",
              message |-> << "Request failed: " >> \o Str(e),
              cause   |-> e ]

\* the exception the matching except clause raises on the last attempt
Wrapped(e, u) ==
    CASE Handler(e) = "ConnectionError" ->
            [ kind    |-> "raised",
              cls     |-> "HTTPConnectionError",
              message |-> << "Failed to connect to ", u, ": " >> \o Str(e),
              cause   |-> e ]
      [] Handler(e) = "HTTPError" ->
            [ kind    |-> "raised",
              cls     |-> "ResponseError",
              message |-> << "HTTP error occurred: " >> \o Str(e),
              cause   |-> e ]
      [] Handler(e) = "RequestException" ->
            [ kind    |-> "raised",
              cls     |-> "HTTPClientError",
              message |-> << "Request failed: " >> \o Str(e),
              cause   |-> e ]

\* an exception that leaves make_request as it is
Propagated(e) ==
    [ kind |-> "raised", cls |-> e.cls, message |-> Str(e), cause |-> NoExc ]

\* the [VERBOSE] line printed at the head of each attempt
AttemptLine ==
    [ tag |-> "Attempt", n |-> attempt + 1, of |-> client.retries,
      method |-> method, url |-> url, kwargs |-> kwargs ]

\* stdout after the head of the loop body
AfterAttemptLine ==
    IF client.verbose THEN Append(stdout, AttemptLine) ELSE stdout

\* the [VERBOSE] line printed by the except clause that caught e
ExceptLine(e) ==
    [ tag |-> Handler(e), n |-> attempt + 1, text |-> Str(e) ]

\* the entry of requests_log for this attempt's call of requests.request
Call(status, e) ==
    [ method |-> method, url |-> url, timeout |-> client.timeout,
      stream |-> kwargs.stream, status |-> status, exc |-> e ]

\* an exception e raised inside the try body of the current attempt,
\* after "out" has been printed.  The locals the try body had assigned
\* (response, progress_bar, and the frame of _stream_response) are not read
\* again: each is assigned anew before its next use, or the call has ended.
Except(e, out) ==
    /\ response' = None
    /\ progress_bar' = 0
    /\ content' = << >>
    /\ yielded' = << >>
    /\ IF Handler(e) = "none"
       THEN /\ pc' = "raised"
            /\ result' = Propagated(e)
            /\ stdout' = out
            /\ UNCHANGED attempt
       ELSE /\ stdout' = IF client.verbose THEN Append(out, ExceptLine(e)) ELSE out
            /\ IF IsLastAttempt(attempt, client.retries)
               THEN /\ pc' = "raised"
                    /\ result' = Wrapped(e, url)
                    /\ UNCHANGED attempt
               ELSE /\ pc' = "loop"
                    /\ attempt' = attempt + 1
                    /\ UNCHANGED result

----------------------------------------------------------------------------
(* make_request up to the loop *)

\* variant: the attempt counter is kept from call to call
MakeRequest_KeepsCounter(m, u, s) ==
    /\ pc = "idle"
    /\ method' = m
    /\ url' = u
    /\ IF ~IsAllowed(m, client.allowed_methods)
       THEN /\ pc' = "raised"
            /\ result' = Propagated(Exc("ValueError", "Unsupported HTTP method"))
            /\ kwargs' = [ stream |-> s ]
       ELSE /\ pc' = "loop"
            /\ kwargs' = IF IsGet(m) THEN [ stream |-> "True" ] ELSE [ stream |-> s ]
            /\ UNCHANGED result
    /\ UNCHANGED << client, attempt, response, progress_bar, bars, content, yielded,
                    requests_log, stdout >>

MakeRequest(m, u, s) ==
    /\ pc = "idle"
    /\ method' = m
    /\ url' = u
    /\ IF ~IsAllowed(m, client.allowed_methods)
       THEN /\ pc' = "raised"
            /\ result' = Propagated(Exc("ValueError", "Unsupported HTTP method"))
            /\ kwargs' = [ stream |-> s ]
       ELSE /\ pc' = "loop"
            /\ kwargs' = IF IsGet(m) THEN [ stream |-> "True" ] ELSE [ stream |-> s ]
            /\ UNCHANGED result
    /\ attempt' = 0
    /\ UNCHANGED << client, response, progress_bar, bars, content, yielded,
                    requests_log, stdout >>

\* requests.request raises e
TransportRaises(e) ==
    /\ pc = "loop"
    /\ HasNextAttempt(attempt, client.retries)
    /\ requests_log' = Append(requests_log, Call(0, e))
    /\ Except(e, AfterAttemptLine)
    /\ UNCHANGED << client, method, url, kwargs, bars >>

\* the for loop runs out of values: make_request ends without a return
\* statement and so returns None
LoopExit ==
    /\ pc = "loop"
    /\ ~HasNextAttempt(attempt, client.retries)
    /\ pc' = "returned"
    /\ result' = None
    /\ UNCHANGED << client, method, url, kwargs, attempt, response,
                    progress_bar, bars, content, yielded, requests_log, stdout >>


----------------------------------------------------------------------------
(* The response of an attempt *)

\* the response object requests.request returns; with stream=True the body
\* is left unread
NewResponse(status, headers, body) ==
    [ kind        |-> "Response",
      status_code |-> status,
      headers     |-> headers,
      content     |-> IF kwargs.stream = "True" THEN << >> ELSE body,
      consumed    |-> kwargs.stream # "True" ]

Digits == << "0", "1", "2", "3", "4", "5", "6", "7", "8", "9" >>

IsDigit(ch) == \E d \in 1..10 : Digits[d] = ch

DigitVal(ch) == (CHOOSE d \in 1..10 : Digits[d] = ch) - 1

\* int(str) succeeds (signs, blanks and underscores are not among the inputs)
IsIntLiteral(str) == Len(str) > 0 /\ \A idx \in 1..Len(str) : IsDigit(str[idx])

RECURSIVE IntOf(_)
\* int(str) for a string of decimal digits
IntOf(str) ==
    IF Len(str) = 0 THEN 0
    ELSE 10 * IntOf(SubSeq(str, 1, Len(str) - 1)) + DigitVal(str[Len(str)])

HasHeader(headers, name) == \E idx \in 1..Len(headers) : headers[idx][1] = name

HeaderValue(headers, name) ==
    headers[CHOOSE idx \in 1..Len(headers) : headers[idx][1] = name][2]

\* 'int(response.headers.get("content-length", 0))' raises ValueError
ContentLengthRaises(headers) ==
    /\ HasHeader(headers, "content-length")
    /\ ~IsIntLiteral(HeaderValue(headers, "content-length"))

\* 'int(response.headers.get("content-length", 0))'
ContentLength(headers) ==
    IF HasHeader(headers, "content-length")
    THEN IntOf(HeaderValue(headers, "content-length"))
    ELSE 0

\* variant: "total > self.MIN_SIZE_FOR_PROGRESS"
create_progress_bar_Strict(total, desc) ==
    IF client.show_progress /\ total > client.MIN_SIZE_FOR_PROGRESS
    THEN [ kind |-> "tqdm", total |-> total, desc |-> desc, n |-> 0,
           updates |-> 0, closed |-> 0 ]
    ELSE None

\* _create_progress_bar(total, desc): a tqdm reporter or None
create_progress_bar(total, desc) ==
    IF client.show_progress /\ total >= client.MIN_SIZE_FOR_PROGRESS
    THEN [ kind |-> "tqdm", total |-> total, desc |-> desc, n |-> 0,
           updates |-> 0, closed |-> 0 ]
    ELSE None

\* 'method.upper() == "GET" and self.show_progress'
TracksProgress == IsGet(method) /\ client.show_progress

ReceivedLine(resp) ==
    [ tag |-> "Received", status |-> resp.status_code, headers |-> resp.headers ]

AfterReceivedLine(resp) ==
    IF client.verbose
    THEN Append(AfterAttemptLine, ReceivedLine(resp))
    ELSE AfterAttemptLine

\* requests.request returns a response whose status raise_for_status rejects
RespondsError(status) ==
    /\ pc = "loop"
    /\ HasNextAttempt(attempt, client.retries)
    /\ IsHTTPErrorStatus(status)
    /\ requests_log' = Append(requests_log, Call(status, HTTPErrorOf(status)))
    /\ Except(HTTPErrorOf(status), AfterAttemptLine)
    /\ UNCHANGED << client, method, url, kwargs, bars >>

\* a good response that is returned as it is
RespondsReturn(status, headers, body) ==
    /\ pc = "loop"
    /\ HasNextAttempt(attempt, client.retries)
    /\ ~IsHTTPErrorStatus(status)
    /\ ~TracksProgress
    /\ response' = NewResponse(status, headers, body)
    /\ requests_log' = Append(requests_log, Call(status, NoExc))
    /\ stdout' = AfterReceivedLine(response')
    /\ pc' = "returned"
    /\ result' = [ kind |-> "Response", value |-> response' ]
    /\ UNCHANGED << client, method, url, kwargs, attempt, progress_bar, bars,
                    content, yielded >>

\* a good response to a progress-tracked GET whose content-length int() rejects
RespondsBadLength(status, headers) ==
    /\ pc = "loop"
    /\ HasNextAttempt(attempt, client.retries)
    /\ ~IsHTTPErrorStatus(status)
    /\ TracksProgress
    /\ ContentLengthRaises(headers)
    /\ requests_log' =
          Append(requests_log, Call(status, Exc("ValueError", "invalid literal for int()")))
    /\ Except(Exc("ValueError", "invalid literal for int()"),
              AfterReceivedLine(NewResponse(status, headers, << >>)))
    /\ UNCHANGED << client, method, url, kwargs, bars >>

\* a good response to a progress-tracked GET: the reporter is set up and
\* _stream_response is entered
RespondsStream(status, headers) ==
    /\ pc = "loop"
    /\ HasNextAttempt(attempt, client.retries)
    /\ ~IsHTTPErrorStatus(status)
    /\ TracksProgress
    /\ ~ContentLengthRaises(headers)
    /\ response' = NewResponse(status, headers, << >>)
    /\ requests_log' = Append(requests_log, Call(status, NoExc))
    /\ stdout' = AfterReceivedLine(response')
    /\ LET bar == create_progress_bar(ContentLength(headers), << "Downloading ", url >>)
       IN  IF bar.kind = "tqdm"
           THEN /\ bars' = Append(bars, bar)
                /\ progress_bar' = Len(bars) + 1
           ELSE /\ bars' = bars
                /\ progress_bar' = 0
    /\ content' = << >>
    /\ yielded' = << >>
    /\ pc' = "stream"
    /\ UNCHANGED << client, method, url, kwargs, attempt, result >>

----------------------------------------------------------------------------
(* _stream_response *)

\* variant: the test "if chunk:" left out
Truthy_Always(chunk) == TRUE

\* "if chunk:"
Truthy(chunk) == Len(chunk) > 0

\* variant: "content = chunk + content"
Accumulate_Prepend(buf, chunk) == IF Truthy(chunk) THEN chunk \o buf ELSE buf

\* "content += chunk" under "if chunk:"
Accumulate(buf, chunk) == IF Truthy(chunk) THEN buf \o chunk ELSE buf

\* progress_bar.update(len(chunk))
BarUpdate(bar, chunk) ==
    [ bar EXCEPT !.n = @ + Len(chunk), !.updates = @ + 1 ]

\* one iteration of "for chunk in response.iter_content(...)"; a reporter
\* that exists has a positive total and so passes "if progress_bar:"
StreamChunk(chunk) ==
    /\ pc = "stream"
    /\ Len(yielded) < MaxChunks
    /\ yielded' = Append(yielded, chunk)
    /\ content' = Accumulate(content, chunk)
    /\ bars' = IF Truthy(chunk) /\ progress_bar # 0
               THEN [ bars EXCEPT ![progress_bar] = BarUpdate(@, chunk) ]
               ELSE bars
    /\ UNCHANGED << client, pc, method, url, kwargs, attempt, response,
                    progress_bar, requests_log, result, stdout >>

\* variant: "progress_bar.close()" left out
StreamEnd_NoClose ==
    /\ pc = "stream"
    /\ bars' = bars
    /\ response' = [ response EXCEPT !.content = content, !.consumed = TRUE ]
    /\ pc' = "returned"
    /\ result' = [ kind |-> "Response", value |-> response' ]
    /\ UNCHANGED << client, method, url, kwargs, attempt, progress_bar,
                    content, yielded, requests_log, stdout >>

\* the stream is exhausted (the response is consumed): the reporter is
\* closed, the buffer replaces the body of the response and make_request
\* returns it
StreamEnd ==
    /\ pc = "stream"
    /\ bars' = IF progress_bar # 0
               THEN [ bars EXCEPT ![progress_bar].closed = @ + 1 ]
               ELSE bars
    /\ response' = [ response EXCEPT !.content = content, !.consumed = TRUE ]
    /\ pc' = "returned"
    /\ result' = [ kind |-> "Response", value |-> response' ]
    /\ UNCHANGED << client, method, url, kwargs, attempt, progress_bar,
                    content, yielded, requests_log, stdout >>

\* variant: the body is read outside the try statement
StreamRaises_OutsideTry(e) ==
    /\ pc = "stream"
    /\ requests_log' = [ requests_log EXCEPT ![Len(requests_log)].exc = e ]
    /\ response' = None
    /\ progress_bar' = 0
    /\ content' = << >>
    /\ yielded' = << >>
    /\ pc' = "raised"
    /\ result' = Propagated(e)
    /\ UNCHANGED << client, method, url, kwargs, attempt, bars, stdout >>

\* response.iter_content raises e; it leaves _stream_response and reaches
\* the except clauses of make_request
StreamRaises(e) ==
    /\ pc = "stream"
    /\ requests_log' = [ requests_log EXCEPT ![Len(requests_log)].exc = e ]
    /\ Except(e, stdout)
    /\ UNCHANGED << client, method, url, kwargs, bars >>

----------------------------------------------------------------------------

Next ==
    \/ \E m \in MethodInputs, u \in UrlInputs, s \in StreamInputs :
          MakeRequest(m, u, s) /\ UNCHANGED cli
    \/ \E e \in TransportExceptions : TransportRaises(e) /\ UNCHANGED cli
    \/ \E status \in StatusInputs : RespondsError(status) /\ UNCHANGED cli
    \/ \E status \in StatusInputs, headers \in HeaderInputs, body \in BodyInputs :
          RespondsReturn(status, headers, body) /\ UNCHANGED cli
    \/ \E status \in StatusInputs, headers \in HeaderInputs :
          RespondsBadLength(status, headers) /\ UNCHANGED cli
    \/ \E status \in StatusInputs, headers \in HeaderInputs :
          RespondsStream(status, headers) /\ UNCHANGED cli
    \/ \E chunk \in ChunkInputs : StreamChunk(chunk) /\ UNCHANGED cli
    \/ StreamEnd /\ UNCHANGED cli
    \/ \E e \in StreamExceptions : StreamRaises(e) /\ UNCHANGED cli
    \/ LoopExit /\ UNCHANGED cli

Spec == Init /\ [][Next]_vars


----------------------------------------------------------------------------
(* Vocabulary of the properties *)

Terminated == pc \in { "returned", "raised" }

Attempts == Len(requests_log)

LastCall == requests_log[Len(requests_log)]

\* the allowed-method set as the specification lists it
AllowedMethodSet ==
    { << "G", "E", "T" >>, << "P", "O", "S", "T" >>, << "P", "U", "T" >>,
      << "P", "A", "T", "C", "H" >>, << "D", "E", "L", "E", "T", "E" >>,
      << "H", "E", "A", "D" >>, << "O", "P", "T", "I", "O", "N", "S" >> }

MethodAllowed == Upper(method) \in AllowedMethodSet

ConnectionClasses == { "ConnectionError", "ConnectTimeout" }

OtherRequestClasses == { "ReadTimeout", "ChunkedEncodingError" }

\* the failure class of an attempt, read off the class of what it raised
FailureClass(call) ==
    CASE call.exc.cls \in ConnectionClasses   -> "connection"
      [] call.exc.cls = "HTTPError"           -> "http"
      [] call.exc.cls \in OtherRequestClasses -> "other"
      [] OTHER                                -> "unclassified"

\* the error make_request is to surface for a final failure of that class
ExpectedError(call, u) ==
    CASE FailureClass(call) = "connection" ->
            [ kind |-> "raised", cls |-> "HTTPConnectionError",
              message |-> << "Failed to connect to ", u, ": " >> \o Str(call.exc),
              cause |-> call.exc ]
      [] FailureClass(call) = "http" ->
            [ kind |-> "raised", cls |-> "ResponseError",
              message |-> << "HTTP error occurred: " >> \o Str(call.exc),
              cause |-> call.exc ]
      [] FailureClass(call) = "other" ->
            [ kind |-> "raised", cls |-> "HTTPClientError",
              message |-> << "Request failed: " >> \o Str(call.exc),
              cause |-> call.exc ]

Contains(seq, x) == \E idx \in 1..Len(seq) : seq[idx] = x

----------------------------------------------------------------------------
(* C1 *)

AllConnectionFailures ==
    \A k \in 1..Attempts : requests_log[k].exc.cls \in ConnectionClasses

\* C1: with a retry budget N >= 1 and an allowed method, when every attempt
\* fails with a connection error the call ends only after exactly N transport
\* invocations, and it ends by raising HTTPConnectionError whose message holds
\* the target URL and the cause of the N-th attempt.
C1_ConnectionErrorAfterNAttempts ==
    ( /\ Terminated
      /\ client.retries >= 1
      /\ MethodAllowed
      /\ AllConnectionFailures )
    => /\ Attempts = client.retries
       /\ result.kind = "raised"
       /\ result.cls = "HTTPConnectionError"
       /\ result.message = << "Failed to connect to ", url, ": ", LastCall.exc.msg >>
       /\ result.cause = LastCall.exc
       /\ \A k \in 1..Attempts : requests_log[k].url = url

\* C1 case: the budget is spent on connection errors and the last cause
\* differs from the first
C1_Witness ==
    /\ Terminated
    /\ client.retries = MaxRetries
    /\ Attempts = MaxRetries
    /\ AllConnectionFailures
    /\ result.kind = "raised"
    /\ result.cls = "HTTPConnectionError"
    /\ requests_log[1].exc.msg # LastCall.exc.msg

----------------------------------------------------------------------------
(* C2 *)

\* the transport returned a response with a non-error status and its body
\* could be read as far as make_request read it
TransportSucceeded(call) ==
    /\ call.status # 0
    /\ ~(call.status \in 400..599)
    /\ FailureClass(call) = "unclassified"
    /\ call.exc.cls # "KeyboardInterrupt"

\* C2: when attempts 1..k-1 fail with retryable failures and attempt k
\* succeeds with a non-error status, make_request returns the response of
\* attempt k, the transport has been invoked exactly k times and is not
\* invoked again.
C2_ReturnsResponseOfFirstSuccess ==
    \A k \in 1..Attempts :
        TransportSucceeded(requests_log[k])
        => /\ k = Attempts
           /\ \A j \in 1..(k - 1) : FailureClass(requests_log[j]) # "unclassified"
           /\ pc \in { "stream", "returned" }
           /\ pc = "returned" => /\ result.kind = "Response"
                                 /\ result.value.status_code = requests_log[k].status

----------------------------------------------------------------------------
(* C3 *)

\* C3: a method whose upper-cased form is outside the allowed set makes
\* make_request raise the Invalid-Method error (ValueError) at once: no
\* transport invocation, no attempt counted, nothing printed, for any budget.
C3_InvalidMethodFailsFast ==
    ( pc # "idle" /\ ~MethodAllowed )
    => /\ pc = "raised"
       /\ result.kind = "raised"
       /\ result.cls = "ValueError"
       /\ Attempts = 0
       /\ attempt = 0
       /\ stdout = << >>

\* C3 case: an unsupported method under the largest budget
C3_Witness ==
    /\ pc = "raised"
    /\ method = << "T", "R", "A", "C", "E" >>
    /\ client.retries = MaxRetries
    /\ result.cls = "ValueError"

----------------------------------------------------------------------------
(* C4 *)

\* C4: in every state of a call the number of transport invocations made so
\* far is at most the configured retry budget.
C4_AttemptsWithinBudget == Attempts <= client.retries

\* C4 case: the whole budget has been used and the call has ended in an error
C4_Witness ==
    /\ pc = "raised"
    /\ client.retries = MaxRetries
    /\ Attempts = MaxRetries

----------------------------------------------------------------------------
(* C5 *)

\* every attempt's outcome is a response or an exception of the three
\* classes make_request catches
OutcomesInTaxonomy ==
    \A k \in 1..Attempts :
        /\ requests_log[k].exc.cls # "KeyboardInterrupt"
        /\ \/ requests_log[k].status # 0
           \/ FailureClass(requests_log[k]) # "unclassified"

\* C5: with a budget N >= 1, an allowed method and transport outcomes drawn
\* from success, connection error, HTTP error status and other request
\* exception, a call that has ended has returned a response or raised one of
\* HTTPConnectionError, ResponseError, HTTPClientError('Request failed').
C5_EndsInOneTerminalState ==
    ( /\ Terminated
      /\ client.retries >= 1
      /\ MethodAllowed
      /\ OutcomesInTaxonomy )
    => \/ result.kind = "Response"
       \/ /\ result.kind = "raised"
          /\ Attempts >= 1
          /\ FailureClass(LastCall) # "unclassified"
          /\ result = ExpectedError(LastCall, url)


----------------------------------------------------------------------------
(* C6 *)

AllHTTPErrorStatuses ==
    \A k \in 1..Attempts : requests_log[k].status \in 400..599

\* C6: with a budget N >= 1 and an allowed method, when every attempt returns
\* an HTTP error status (4xx or 5xx alike) the call goes on to the next
\* attempt without raising until the N-th, and then raises ResponseError
\* built from the status of the N-th attempt.
C6_ResponseErrorAfterNAttempts ==
    ( /\ pc # "idle"
      /\ client.retries >= 1
      /\ MethodAllowed
      /\ AllHTTPErrorStatuses )
    => /\ pc \in { "loop", "raised" }
       /\ pc = "loop" => /\ Attempts < client.retries
                         /\ attempt = Attempts
                         /\ result.kind = "pending"
       /\ pc = "raised" => /\ Attempts = client.retries
                           /\ result.cls = "ResponseError"
                           /\ result.message[1] = "HTTP error occurred: "
                           /\ result.message[2] = ToString(LastCall.status)
                           /\ result.cause.cls = "HTTPError"
                           /\ result.cause.status = LastCall.status

\* C6 case: a 4xx first and a different, 5xx status last, the budget spent
C6_Witness ==
    /\ pc = "raised"
    /\ client.retries = MaxRetries
    /\ Attempts = MaxRetries
    /\ AllHTTPErrorStatuses
    /\ requests_log[1].status = 400
    /\ LastCall.status = 599
    /\ result.cls = "ResponseError"

----------------------------------------------------------------------------
(* C7 *)

\* every attempt so far ended with the transport raising an exception (not
\* an interrupt) that is neither a connection failure nor an HTTP error
AllNeitherConnectionNorHTTP ==
    \A k \in 1..Attempts :
        /\ requests_log[k].status = 0
        /\ requests_log[k].exc.cls \notin ConnectionClasses \cup { "HTTPError", "KeyboardInterrupt" }

\* C7 as stated: whenever the transport fails on every attempt with an
\* exception that is neither a connection failure nor an HTTP error status,
\* the transport is invoked exactly N times and the call ends with
\* HTTPClientError 'Request failed: ...'.
C7_AnyOtherExceptionRetried ==
    ( /\ Terminated
      /\ client.retries >= 1
      /\ MethodAllowed
      /\ AllNeitherConnectionNorHTTP )
    => /\ Attempts = client.retries
       /\ result.kind = "raised"
       /\ result.cls = "HTTPClientError"
       /\ result.message[1] = "Request failed: "

AllOtherRequestExceptions ==
    \A k \in 1..Attempts : requests_log[k].exc.cls \in OtherRequestClasses

\* C7 amended: whenever every attempt fails with an exception of the
\* transport's RequestException class that is neither a connection failure
\* nor an HTTP error, the call retries on each non-final attempt, the
\* transport is invoked exactly N times and the N-th failure is raised as
\* HTTPClientError 'Request failed: <cause of the N-th attempt>'.
C7_OtherRequestExceptionRetried ==
    ( /\ pc # "idle"
      /\ client.retries >= 1
      /\ MethodAllowed
      /\ AllOtherRequestExceptions )
    => /\ pc \in { "loop", "raised" }
       /\ pc = "loop" => /\ Attempts < client.retries
                         /\ attempt = Attempts
                         /\ result.kind = "pending"
       /\ pc = "raised" => /\ Attempts = client.retries
                           /\ result.cls = "HTTPClientError"
                           /\ result.message = << "Request failed: ", LastCall.exc.msg >>
                           /\ result.cause = LastCall.exc

\* C7 case: the budget is spent on read timeouts raised by the transport
C7_Witness ==
    /\ pc = "raised"
    /\ client.retries = MaxRetries
    /\ Attempts = MaxRetries
    /\ \A k \in 1..Attempts : requests_log[k].exc.cls = "ReadTimeout"
    /\ result.cls = "HTTPClientError"
    /\ result.message[1] = "Request failed: "

----------------------------------------------------------------------------
(* C8 *)

AllClassifiedFailures ==
    \A k \in 1..Attempts : FailureClass(requests_log[k]) # "unclassified"

\* C8: when all N attempts fail with failures of the three classes, the
\* error raised (its kind, its message, its cause) is the one that belongs
\* to the failure of the N-th attempt alone.
C8_FinalAttemptDecidesError ==
    ( /\ Terminated
      /\ client.retries >= 1
      /\ MethodAllowed
      /\ AllClassifiedFailures )
    => /\ Attempts = client.retries
       /\ result = ExpectedError(LastCall, url)

\* C8 case: the first and the last attempt fail with different classes
C8_Witness ==
    /\ pc = "raised"
    /\ client.retries = MaxRetries
    /\ Attempts = MaxRetries
    /\ AllClassifiedFailures
    /\ FailureClass(requests_log[1]) = "connection"
    /\ FailureClass(LastCall) = "other"
    /\ result.cls = "HTTPClientError"

----------------------------------------------------------------------------
(* C9 *)

\* _stream_response has been entered for the current response
Streaming == pc = "stream" \/ (pc = "returned" /\ result.kind = "Response" /\ TracksProgress)

DeclaredHeaderIs(digits) ==
    /\ HasHeader(response.headers, "content-length")
    /\ HeaderValue(response.headers, "content-length") = digits

\* C9: on a successful GET with show-progress enabled a reporter exists for
\* the response exactly when the declared content-length is at least
\* 5242880: it exists for 6291456 and 5242880, not for 4194304, 1048576, 0;
\* with show-progress disabled, or for another method, none is ever created.
C9_ReporterIffAtLeastThreshold ==
    /\ Streaming =>
          /\ IsGet(method) /\ client.show_progress
          /\ (progress_bar # 0) <=> (ContentLength(response.headers) >= 5242880)
          /\ progress_bar # 0 =>
                /\ progress_bar = Len(bars)
                /\ bars[progress_bar].total = ContentLength(response.headers)
          /\ DeclaredHeaderIs(<< "6", "2", "9", "1", "4", "5", "6" >>) => progress_bar # 0
          /\ DeclaredHeaderIs(<< "5", "2", "4", "2", "8", "8", "0" >>) => progress_bar # 0
          /\ DeclaredHeaderIs(<< "4", "1", "9", "4", "3", "0", "4" >>) => progress_bar = 0
          /\ DeclaredHeaderIs(<< "1", "0", "4", "8", "5", "7", "6" >>) => progress_bar = 0
          /\ DeclaredHeaderIs(<< "0" >>) => progress_bar = 0
    /\ ~client.show_progress => bars = << >>
    /\ (pc # "idle" /\ ~IsGet(method)) => bars = << >>
    /\ \A b \in 1..Len(bars) : bars[b].total >= 5242880

\* C9 case: a reporter exists for a declared size of exactly the threshold
C9_Witness ==
    /\ pc = "stream"
    /\ client.show_progress
    /\ DeclaredHeaderIs(<< "5", "2", "4", "2", "8", "8", "0" >>)
    /\ progress_bar # 0

----------------------------------------------------------------------------
(* C10 *)

RECURSIVE Concat(_)
\* the concatenation of a sequence of chunks, in order
Concat(chunks) ==
    IF Len(chunks) = 0 THEN << >> ELSE Head(chunks) \o Concat(Tail(chunks))

IsNonEmpty(chunk) == chunk # << >>

\* C10: the buffer of the Streaming Reader is the concatenation, in stream
\* order, of the non-empty chunks yielded so far, with or without a
\* reporter, and on a successful progress-tracked GET the returned
\* response's body is that buffer for the whole stream.
C10_BufferIsConcatenation ==
    Streaming =>
       /\ content = Concat(SelectSeq(yielded, IsNonEmpty))
       /\ pc = "returned" => /\ result.value.content = Concat(SelectSeq(yielded, IsNonEmpty))
                             /\ result.value = response

\* C10 case: a reporter is present, the stream had its full number of
\* chunks, and two or more bytes were returned
C10_Witness ==
    /\ pc = "returned"
    /\ TracksProgress
    /\ result.kind = "Response"
    /\ progress_bar # 0
    /\ Len(yielded) = MaxChunks
    /\ Len(result.value.content) >= 2


----------------------------------------------------------------------------
(* C12 *)

Interrupted(k) == requests_log[k].exc.cls = "KeyboardInterrupt"

\* C12: when KeyboardInterrupt arrives during attempt k (in the transport
\* call or while the body is streamed), attempt k is the last one: the call
\* has ended by raising the interrupt itself, not a classified error, the
\* loop counter has not advanced, and the transport has been invoked
\* exactly k times.
C12_InterruptAbortsAtOnce ==
    \A k \in 1..Attempts :
        Interrupted(k)
        => /\ Attempts = k
           /\ attempt = k - 1
           /\ pc = "raised"
           /\ result.kind = "raised"
           /\ result.cls = "KeyboardInterrupt"
           /\ result.cause = NoExc

\* C12 case: the interrupt arrives during attempt 1 of a budget of MaxRetries
C12_Witness ==
    /\ client.retries = MaxRetries
    /\ Attempts = 1
    /\ Attempts < client.retries
    /\ Interrupted(1)
    /\ pc = "raised"


----------------------------------------------------------------------------
(* Sequential calls on one client instance *)

\* the caller of make_request: how many calls have ended, and whether one
\* of them used up the whole retry budget
Caller(ended, exhausted) ==
    [ pc |-> "caller", ended |-> ended, exhausted |-> exhausted ]

SeqInit ==
    /\ \E retries \in 0..MaxRetries, verbose \in BOOLEAN, show_progress \in BOOLEAN :
          client = NewClient(30, retries, verbose, show_progress)
    /\ Constructed
    /\ cli = Caller(0, FALSE)

\* the caller has the outcome of a call and turns to the next one: the record
\* of the transport and of the output starts anew, the client object and
\* whatever make_request left behind stay as they are
Reuse ==
    /\ pc \in { "returned", "raised" }
    /\ pc' = "idle"
    /\ cli' = Caller(IF cli.ended < MaxCounted THEN cli.ended + 1 ELSE MaxCounted,
                     cli.exhausted
                       \/ (client.retries >= 1 /\ Len(requests_log) = client.retries))
    /\ requests_log' = << >>
    /\ result' = [ kind |-> "pending" ]
    /\ stdout' = << >>
    /\ bars' = << >>
    /\ response' = None
    /\ progress_bar' = 0
    /\ content' = << >>
    /\ yielded' = << >>
    /\ UNCHANGED << client, method, url, kwargs, attempt >>

SeqMethodInputs == { GET, << "P", "O", "S", "T" >>, << "T", "R", "A", "C", "E" >> }

SeqTransportExceptions ==
    { Exc("ConnectionError", "cause1"), Exc("ReadTimeout", "cause1"),
      Exc("HTTPClientError", "cause1") }

SeqHeaderInputs ==
    { << >>,
      << << "content-length", << "5", "2", "4", "2", "8", "8", "0" >> >> >>,
      << << "content-length", << "1", "2", "x" >> >> >> }

SeqNext ==
    \/ \E m \in SeqMethodInputs, u \in UrlInputs : MakeRequest(m, u, "unset") /\ UNCHANGED cli
    \/ \E e \in SeqTransportExceptions : TransportRaises(e) /\ UNCHANGED cli
    \/ RespondsError(400) /\ UNCHANGED cli
    \/ \E headers \in SeqHeaderInputs : RespondsReturn(200, headers, << 7 >>) /\ UNCHANGED cli
    \/ \E headers \in SeqHeaderInputs : RespondsBadLength(200, headers) /\ UNCHANGED cli
    \/ \E headers \in SeqHeaderInputs : RespondsStream(200, headers) /\ UNCHANGED cli
    \/ StreamChunk(<< 1 >>) /\ UNCHANGED cli
    \/ StreamEnd /\ UNCHANGED cli
    \/ StreamRaises(Exc("ChunkedEncodingError", "cause1")) /\ UNCHANGED cli
    \/ LoopExit /\ UNCHANGED cli
    \/ Reuse

SeqSpec == SeqInit /\ [][SeqNext]_vars

----------------------------------------------------------------------------
(* C11 *)

\* the outcome that this call's arguments and this call's transport outcomes
\* determine, by the rules of make_request
OutcomeOfThisCall ==
    IF ~MethodAllowed
    THEN Attempts = 0 /\ result.kind = "raised" /\ result.cls = "ValueError"
    ELSE IF client.retries = 0
    THEN Attempts = 0 /\ result = None
    ELSE /\ Attempts >= 1
         /\ \A k \in 1..(Attempts - 1) : FailureClass(requests_log[k]) # "unclassified"
         /\ IF FailureClass(LastCall) # "unclassified"
            THEN Attempts = client.retries /\ result = ExpectedError(LastCall, url)
            ELSE IF LastCall.exc = NoExc
            THEN result.kind = "Response" /\ result.value.status_code = LastCall.status
            ELSE result.kind = "raised" /\ result.cls = LastCall.exc.cls
                    /\ result.cause = NoExc

\* the configuration __init__ gave the client
IsConfiguration(c) ==
    /\ c.timeout = 30
    /\ c.retries \in 0..MaxRetries
    /\ c.verbose \in BOOLEAN
    /\ c.show_progress \in BOOLEAN
    /\ { c.allowed_methods[idx] : idx \in 1..Len(c.allowed_methods) } = AllowedMethodSet
    /\ c.MIN_SIZE_FOR_PROGRESS = 5242880

\* C11: over any sequence of sequential calls on one client the
\* configuration never changes, every call enters the loop with attempt
\* counter 0, and every call that has ended made the number of transport
\* invocations and has the outcome that its own arguments and transport
\* outcomes determine, whatever the earlier calls were.
C11_CallsIndependent ==
    /\ [](IsConfiguration(client))
    /\ [][client' = client]_vars
    /\ [][(pc = "idle" /\ pc' = "loop") => attempt' = 0]_vars
    /\ [](Terminated => OutcomeOfThisCall)
    /\ [](Attempts <= client.retries)

\* C11 case: after a call that used up the budget, a later call uses up the
\* whole budget again
C11_Witness ==
    /\ cli.pc = "caller"
    /\ cli.ended >= 1
    /\ cli.exhausted
    /\ client.retries = MaxRetries
    /\ pc = "raised"
    /\ Attempts = MaxRetries
    /\ FailureClass(LastCall) # "unclassified"


----------------------------------------------------------------------------
(* cli.py, main: the -H/--header values are turned into the headers dict *)

MaxHeaderArgs == 2

\* -H values on the command line
HeaderArgInputs ==
    { << "A", "u", "t", "h", "o", "r", "i", "z", "a", "t", "i", "o", "n", ":", " ", "B", "e", "a", "r", "e", "r", " ", "x", "y", "z" >>,
      << "N", "o", "C", "o", "l", "o", "n", "H", "e", "r", "e" >>,
      << "A", ":", "1" >>,
      << " ", "A", " ", ":", " ", "2", " " >>,
      << "A", ":", "b", ":", "c" >>,
      << ":", "v" >>,
      << "B", ":" >> }

RECURSIVE SeqsUpTo(_, _)
\* the sequences over "set" of length at most n
SeqsUpTo(set, n) ==
    IF n = 0 THEN { << >> }
    ELSE LET shorter == SeqsUpTo(set, n - 1)
         IN  shorter \cup { Append(q, x) : q \in shorter, x \in set }

\* characters str.strip() removes
IsSpace(ch) == ch \in { " ", "\t", "\n" }

RECURSIVE LStrip(_)
LStrip(str) ==
    IF Len(str) > 0 /\ IsSpace(Head(str)) THEN LStrip(Tail(str)) ELSE str

RECURSIVE RStrip(_)
RStrip(str) ==
    IF Len(str) > 0 /\ IsSpace(str[Len(str)])
    THEN RStrip(SubSeq(str, 1, Len(str) - 1))
    ELSE str

\* str.strip()
Strip(str) == RStrip(LStrip(str))

\* '":" in item'
HasColon(item) == \E idx \in 1..Len(item) : item[idx] = ":"

RECURSIVE Find(_, _, _)
\* the first position at or after "from" where str has ch
Find(str, ch, from) == IF str[from] = ch THEN from ELSE Find(str, ch, from + 1)

RECURSIVE RFind(_, _, _)
RFind(str, ch, from) == IF str[from] = ch THEN from ELSE RFind(str, ch, from - 1)

\* variant: item.rsplit(":", 1)
Split1_Last(item) ==
    LET at == RFind(item, ":", Len(item))
    IN  << SubSeq(item, 1, at - 1), SubSeq(item, at + 1, Len(item)) >>

\* item.split(":", 1) for an item that has a colon
Split1(item) ==
    LET at == Find(item, ":", 1)
    IN  << SubSeq(item, 1, at - 1), SubSeq(item, at + 1, Len(item)) >>

\* headers[key] = value on a dict kept as (key, value) pairs in insertion order
DictSet(dict, key, value) ==
    IF \E idx \in 1..Len(dict) : dict[idx][1] = key
    THEN [ idx \in 1..Len(dict) |->
             IF dict[idx][1] = key THEN << key, value >> ELSE dict[idx] ]
    ELSE Append(dict, << key, value >>)

\* the body of "for item in args.header"
HeaderItem(headers, item) ==
    IF HasColon(item)
    THEN DictSet(headers, Strip(Split1(item)[1]), Strip(Split1(item)[2]))
    ELSE headers

RECURSIVE ParseHeaders(_, _)
\* the whole loop over args.header, starting from the dict "headers"
ParseHeaders(headers, items) ==
    IF Len(items) = 0 THEN headers
    ELSE ParseHeaders(HeaderItem(headers, Head(items)), Tail(items))

\* kwargs after "if headers: kwargs['headers'] = headers"
WithHeaders(kw, headers) ==
    IF Len(headers) > 0
    THEN [ kw EXCEPT !.has_headers = TRUE, !.headers = headers ]
    ELSE kw

NoKwargs == [ has_headers |-> FALSE, headers |-> << >>, has_json |-> FALSE, json |-> << >> ]

HeaderInit ==
    /\ client = NewClient(30, 3, FALSE, FALSE)
    /\ Constructed
    /\ \E items \in SeqsUpTo(HeaderArgInputs, MaxHeaderArgs) :
          cli = [ pc |-> "headers", items |-> items, next |-> 1,
                  headers |-> << >>, kwargs |-> NoKwargs ]

\* one iteration of "for item in args.header"
HeaderLoop ==
    /\ cli.pc = "headers"
    /\ cli.next <= Len(cli.items)
    /\ cli' = [ cli EXCEPT !.headers = HeaderItem(@, cli.items[cli.next]),
                           !.next = @ + 1 ]
    /\ UNCHANGED << client, pc, method, url, kwargs, attempt, response,
                    progress_bar, bars, content, yielded, requests_log, result,
                    stdout >>

\* the loop is over: "if headers: kwargs['headers'] = headers"
HeaderEnd ==
    /\ cli.pc = "headers"
    /\ cli.next > Len(cli.items)
    /\ cli' = [ cli EXCEPT !.pc = "headers_done",
                           !.kwargs = WithHeaders(@, cli.headers) ]
    /\ UNCHANGED << client, pc, method, url, kwargs, attempt, response,
                    progress_bar, bars, content, yielded, requests_log, result,
                    stdout >>

HeaderNext == HeaderLoop \/ HeaderEnd

HeaderSpec == HeaderInit /\ [][HeaderNext]_vars

----------------------------------------------------------------------------
(* C13 *)

\* the position of the first colon of an item that has one
FirstColon(item) ==
    CHOOSE at \in 1..Len(item) :
        item[at] = ":" /\ \A before \in 1..(at - 1) : item[before] # ":"

\* str without the blanks at its two ends
Trimmed(str) ==
    IF \A idx \in 1..Len(str) : IsSpace(str[idx]) THEN << >>
    ELSE LET solid == { idx \in 1..Len(str) : ~IsSpace(str[idx]) }
             first == CHOOSE idx \in solid : \A other \in solid : idx <= other
             last  == CHOOSE idx \in solid : \A other \in solid : idx >= other
         IN  SubSeq(str, first, last)

KeyOf(item) == Trimmed(SubSeq(item, 1, FirstColon(item) - 1))

ValueOf(item) == Trimmed(SubSeq(item, FirstColon(item) + 1, Len(item)))

\* the positions of the -H values that have a colon
Contributing(items) ==
    { idx \in 1..Len(items) : \E at \in 1..Len(items[idx]) : items[idx][at] = ":" }

\* the last -H value that yields the key
LastFor(items, key) ==
    CHOOSE idx \in Contributing(items) :
        /\ KeyOf(items[idx]) = key
        /\ \A later \in Contributing(items) : KeyOf(items[later]) = key => later <= idx

\* C13: when the loop over the -H values is over, the headers dict has
\* exactly the keys (text before the first colon, trimmed) of the values
\* that contain a colon, each once, each with the value (text after the
\* first colon, trimmed, later colons kept) of the last -H value yielding
\* that key; a value without a colon adds nothing; kwargs gets the dict if
\* it is not empty.
C13_HeaderParsing ==
    cli.pc = "headers_done" =>
       LET items == cli.items
           dict  == cli.headers
       IN  /\ { dict[idx][1] : idx \in 1..Len(dict) }
                = { KeyOf(items[idx]) : idx \in Contributing(items) }
           /\ \A one, two \in 1..Len(dict) : dict[one][1] = dict[two][1] => one = two
           /\ \A idx \in 1..Len(dict) :
                 dict[idx][2] = ValueOf(items[LastFor(items, dict[idx][1])])
           /\ cli.kwargs.has_headers <=> Contributing(items) # { }
           /\ cli.kwargs.has_headers => cli.kwargs.headers = dict
           /\ items = << << "A", "u", "t", "h", "o", "r", "i", "z", "a", "t", "i", "o", "n", ":", " ", "B", "e", "a", "r", "e", "r", " ", "x", "y", "z" >> >> => dict = << << << "A", "u", "t", "h", "o", "r", "i", "z", "a", "t", "i", "o", "n" >>, << "B", "e", "a", "r", "e", "r", " ", "x", "y", "z" >> >> >>
           /\ items = << << "N", "o", "C", "o", "l", "o", "n", "H", "e", "r", "e" >> >> => dict = << >> /\ ~cli.kwargs.has_headers
           /\ items = << << "A", ":", "b", ":", "c" >> >>
                 => dict = << << << "A" >>, << "b", ":", "c" >> >> >>

\* C13 case: two -H values yield the same key and the later one has won
C13_Witness ==
    /\ cli.pc = "headers_done"
    /\ cli.items = << << "A", ":", "b", ":", "c" >>, << " ", "A", " ", ":", " ", "2", " " >> >>
    /\ cli.headers = << << << "A" >>, << "2" >> >> >>

----------------------------------------------------------------------------
(* json.loads and json.dumps(indent=4), for the JSON texts made of objects, *)
(* strings without escapes, non-negative integers and the three literals    *)

\* the whitespace json.loads skips
IsJsonSpace(ch) == ch \in { " ", "\t", "\n", "\r" }

RECURSIVE SkipWs(_, _)
\* the first position at or after "from" that holds no whitespace
SkipWs(str, from) ==
    IF from <= Len(str) /\ IsJsonSpace(str[from]) THEN SkipWs(str, from + 1) ELSE from

\* json.loads raises JSONDecodeError
JsonFail == [ ok |-> FALSE, value |-> [ t |-> "none" ], next |-> 0 ]

JsonOk(value, next) == [ ok |-> TRUE, value |-> value, next |-> next ]

\* str[from:].startswith(word)
StartsWith(str, from, word) ==
    /\ from + Len(word) - 1 <= Len(str)
    /\ SubSeq(str, from, from + Len(word) - 1) = word

RECURSIVE StringEnd(_, _)
\* the position of the quote that closes a string whose text starts at
\* "from"; 0 when the text ends first or holds a backslash
StringEnd(str, from) ==
    IF from > Len(str) \/ str[from] = "\\" THEN 0
    ELSE IF str[from] = "\"" THEN from
    ELSE StringEnd(str, from + 1)

\* a string literal whose opening quote is at "at"
ParseString(str, at) ==
    LET close == StringEnd(str, at + 1)
    IN  IF close = 0 THEN JsonFail
        ELSE JsonOk([ t |-> "str", v |-> SubSeq(str, at + 1, close - 1) ], close + 1)

RECURSIVE DigitsEnd(_, _)
\* the position after the run of digits that starts at "from"
DigitsEnd(str, from) ==
    IF from <= Len(str) /\ IsDigit(str[from]) THEN DigitsEnd(str, from + 1) ELSE from

\* an integer literal at "at": a single 0, or a run of digits not led by 0
ParseInt(str, at) ==
    LET stop == IF str[at] = "0" THEN at + 1 ELSE DigitsEnd(str, at)
    IN  JsonOk([ t |-> "int", v |-> IntOf(SubSeq(str, at, stop - 1)) ], stop)

TrueWord == << "t", "r", "u", "e" >>

FalseWord == << "f", "a", "l", "s", "e" >>

NullWord == << "n", "u", "l", "l" >>

RECURSIVE ParseValue(_, _)
RECURSIVE ParseMembers(_, _, _, _)

\* the members of an object after "{" or ","; a repeated key keeps its
\* place and takes the later value, as in a dict
ParseMembers(str, from, members, first) ==
    LET at == SkipWs(str, from)
    IN  IF at > Len(str) THEN JsonFail
        ELSE IF first /\ str[at] = "}" THEN JsonOk([ t |-> "obj", v |-> members ], at + 1)
        ELSE IF str[at] # "\"" THEN JsonFail
        ELSE LET key == ParseString(str, at)
             IN  IF ~key.ok THEN JsonFail
                 ELSE LET colon == SkipWs(str, key.next)
                      IN  IF colon > Len(str) \/ str[colon] # ":" THEN JsonFail
                          ELSE LET val == ParseValue(str, colon + 1)
                               IN  IF ~val.ok THEN JsonFail
                                   ELSE LET sep  == SkipWs(str, val.next)
                                            more == DictSet(members, key.value.v, val.value)
                                        IN  IF sep > Len(str) THEN JsonFail
                                            ELSE IF str[sep] = ","
                                                 THEN ParseMembers(str, sep + 1, more, FALSE)
                                            ELSE IF str[sep] = "}"
                                                 THEN JsonOk([ t |-> "obj", v |-> more ], sep + 1)
                                            ELSE JsonFail

\* one JSON value, after the whitespace at "from"
ParseValue(str, from) ==
    LET at == SkipWs(str, from)
    IN  IF at > Len(str) THEN JsonFail
        ELSE IF str[at] = "{" THEN ParseMembers(str, at + 1, << >>, TRUE)
        ELSE IF str[at] = "\"" THEN ParseString(str, at)
        ELSE IF IsDigit(str[at]) THEN ParseInt(str, at)
        ELSE IF StartsWith(str, at, TrueWord)
             THEN JsonOk([ t |-> "lit", v |-> TrueWord ], at + Len(TrueWord))
        ELSE IF StartsWith(str, at, FalseWord)
             THEN JsonOk([ t |-> "lit", v |-> FalseWord ], at + Len(FalseWord))
        ELSE IF StartsWith(str, at, NullWord)
             THEN JsonOk([ t |-> "lit", v |-> NullWord ], at + Len(NullWord))
        ELSE JsonFail

\* json.loads(str): one value and nothing but whitespace after it
JsonLoads(str) ==
    LET parsed == ParseValue(str, 1)
    IN  IF parsed.ok /\ SkipWs(str, parsed.next) > Len(str) THEN parsed ELSE JsonFail

RECURSIVE IntStr(_)
\* str(n) for n >= 0
IntStr(n) ==
    IF n < 10 THEN << Digits[n + 1] >>
    ELSE IntStr(n \div 10) \o << Digits[(n % 10) + 1] >>

RECURSIVE Spaces(_)
Spaces(n) == IF n = 0 THEN << >> ELSE << " " >> \o Spaces(n - 1)

\* variant: json.dumps(json_data, indent=2)
Indent_Two(depth) == Spaces(2 * depth)

\* the margin of a line at nesting depth "depth" under indent=4
Indent(depth) == Spaces(4 * depth)

RECURSIVE JsonDumps(_, _)
RECURSIVE DumpMembers(_, _, _)

\* the members from position "from" on, one to a line, "," between them
DumpMembers(members, from, depth) ==
    Indent(depth) \o << "\"" >> \o members[from][1] \o << "\"", ":", " " >>
        \o JsonDumps(members[from][2], depth)
        \o IF from = Len(members) THEN << >>
           ELSE << ",", "\n" >> \o DumpMembers(members, from + 1, depth)

\* json.dumps(value, indent=4), for a value nested "depth" objects deep
JsonDumps(value, depth) ==
    IF value.t = "int" THEN IntStr(value.v)
    ELSE IF value.t = "str" THEN << "\"" >> \o value.v \o << "\"" >>
    ELSE IF value.t = "lit" THEN value.v
    ELSE IF Len(value.v) = 0 THEN << "{", "}" >>
    ELSE << "{", "\n" >> \o DumpMembers(value.v, 1, depth + 1)
            \o << "\n" >> \o Indent(depth) \o << "}" >>

----------------------------------------------------------------------------
(* cli.py: create_parser and parse_args *)

HELP == << "H", "E", "L", "P" >>

\* variant: a TRACE parser is registered as well
CommandNames_WithTrace ==
    << HELP, GET, << "P", "O", "S", "T" >>, << "P", "U", "T" >>,
       << "P", "A", "T", "C", "H" >>, << "D", "E", "L", "E", "T", "E" >>,
       << "H", "E", "A", "D" >>, << "O", "P", "T", "I", "O", "N", "S" >>,
       << "T", "R", "A", "C", "E" >> >>

\* the names create_parser registers with add_parser
CommandNames ==
    << HELP, GET, << "P", "O", "S", "T" >>, << "P", "U", "T" >>,
       << "P", "A", "T", "C", "H" >>, << "D", "E", "L", "E", "T", "E" >>,
       << "H", "E", "A", "D" >>, << "O", "P", "T", "I", "O", "N", "S" >> >>

\* str.lower() on one character
LowerChar(ch) ==
    IF \E low \in DOMAIN Letters : Letters[low] = ch
    THEN CHOOSE low \in DOMAIN Letters : Letters[low] = ch
    ELSE ch

\* str.lower()
Lower(str) == [ idx \in 1..Len(str) |-> LowerChar(str[idx]) ]

\* the sub-parsers that answer to a word: each by its name and by its one
\* alias, the name in lower case
Registered(word) ==
    { idx \in 1..Len(CommandNames) :
         CommandNames[idx] = word \/ Lower(CommandNames[idx]) = word }

\* the name of the sub-parser a registered word selects
ParserOf(word) == CommandNames[CHOOSE idx \in Registered(word) : TRUE]

\* variant: every request parser gets --progress
HasProgressOption_All(name) == name # HELP

\* the parsers create_parser gives --progress
HasProgressOption(name) == name = GET

\* the parsers create_parser gives -d/--data
HasDataOption(name) ==
    name \in { << "P", "O", "S", "T" >>, << "P", "U", "T" >>, << "P", "A", "T", "C", "H" >> }

\* parse_args ends the program: usage and the error on stderr, exit code 2
UsageError(error) ==
    [ ok |-> FALSE, error |-> error, command |-> << >>, url |-> "", timeout |-> 30,
      header |-> << >>, verbose |-> FALSE, has_progress |-> FALSE, progress |-> FALSE,
      has_data |-> FALSE, data_given |-> FALSE, data |-> << >> ]

\* something follows the command on the command line
HasArguments(argv) ==
    \/ argv.url # ""
    \/ Len(argv.header) > 0
    \/ argv.verbose
    \/ argv.progress
    \/ argv.data_given

\* the namespace parse_args returns for the command line argv
Argparse(argv) ==
    IF Len(argv.command) = 0
    THEN IF HasArguments(argv) THEN UsageError("unrecognized arguments")
         ELSE [ UsageError("") EXCEPT !.ok = TRUE ]
    ELSE IF Registered(argv.command) = { } THEN UsageError("invalid choice")
    ELSE IF ParserOf(argv.command) = HELP
         THEN IF HasArguments(argv) THEN UsageError("unrecognized arguments")
              ELSE [ UsageError("") EXCEPT !.ok = TRUE, !.command = argv.command ]
    ELSE IF argv.url = "" THEN UsageError("the following arguments are required: url")
    ELSE IF argv.progress /\ ~HasProgressOption(ParserOf(argv.command))
         THEN UsageError("unrecognized arguments")
    ELSE IF argv.data_given /\ ~HasDataOption(ParserOf(argv.command))
         THEN UsageError("unrecognized arguments")
    ELSE [ ok           |-> TRUE,
           error        |-> "",
           command      |-> argv.command,
           url          |-> argv.url,
           timeout      |-> 30,
           header       |-> argv.header,
           verbose      |-> argv.verbose,
           has_progress |-> HasProgressOption(ParserOf(argv.command)),
           progress     |-> argv.progress,
           has_data     |-> HasDataOption(ParserOf(argv.command)),
           data_given   |-> argv.data_given,
           data         |-> argv.data ]

----------------------------------------------------------------------------
(* cli.py: main, and the two ways the program is started *)

\* the words given as the command; << >> when there is none
CommandInputs ==
    { << >>, HELP, << "h", "e", "l", "p" >>, << "H", "e", "l", "p" >>,
      GET, << "g", "e", "t" >>, << "G", "e", "t" >>,
      << "P", "O", "S", "T" >>, << "P", "U", "T" >>, << "P", "A", "T", "C", "H" >>,
      << "D", "E", "L", "E", "T", "E" >>, << "H", "E", "A", "D" >>,
      << "O", "P", "T", "I", "O", "N", "S" >>, << "T", "R", "A", "C", "E" >> }

\* the url argument, "" when it is left out
CliUrlInputs == { "", "https://a.test/x" }

\* the -H values of one command line
CliHeaderArgInputs ==
    { << >>,
      << << "A", ":", "1" >>, << "n", "o", "n", "e" >>, << " ", "A", " ", ":", " ", "2", " " >> >> }

\* the -d value: left out, a JSON object, a cut-off object, the empty
\* string, a blank
DataInputs ==
    { [ given |-> FALSE, text |-> << >> ],
      [ given |-> TRUE,  text |-> << "{", "\"", "k", "\"", ":", " ", "\"", "v", "\"", "}" >> ],
      [ given |-> TRUE,  text |-> << "{", "\"", "k", "\"", ":" >> ],
      [ given |-> TRUE,  text |-> << >> ],
      [ given |-> TRUE,  text |-> << " " >> ] }

ArgvInputs ==
    { [ command |-> c, url |-> u, header |-> h, verbose |-> v, progress |-> p,
        data_given |-> d.given, data |-> d.text ] :
        c \in CommandInputs, u \in CliUrlInputs, h \in CliHeaderArgInputs,
        v \in BOOLEAN, p \in BOOLEAN, d \in DataInputs }

\* how main is entered: the console script of setup.py, "python -m PyFetch",
\* or a call main(suppress_output=True) as the tests make it
EntryInputs == { "script", "module", "call" }

\* exceptions requests.request raises under the command line
CliTransportExceptions ==
    { Exc("ConnectionError", "cause1"), Exc("ReadTimeout", "cause1"),
      Exc("KeyboardInterrupt", "") }

CliStatusInputs == { 200, 404 }

\* response headers under the command line
CliHeaderInputs ==
    { << >>,
      << << "content-type", << "text/plain" >> >> >>,
      << << "content-type", << "text/plain" >> >>,
         << "content-length", << "5", "2", "4", "2", "8", "8", "0" >> >> >>,
      << << "content-length", << "1", "2", "x" >> >> >> }

\* response bodies, as the characters response.text decodes them to
CliBodyInputs ==
    { << >>,
      << " ", "\n" >>,
      << "p", "l", "a", "i", "n", " ", "t", "e", "x", "t" >>,
      << "{", "\"", "a", "\"", ":", "1", "}" >>,
      << "{", "\"", "a", "\"", ":", "1" >>,
      << "\"", "o", "k", "\"" >>,
      << " ", "{", "\"", "a", "\"", ":", "{", "\"", "b", "\"", ":", "2", "0", "}", ",",
         "\"", "a", "\"", ":", "{", "}", ",", "\"", "c", "\"", ":", "n", "u", "l", "l", "}" >> }

\* chunks of a streamed body under the command line
CliChunkInputs ==
    { << "{", "\"", "a", "\"", ":" >>, << "1", "}" >> }

\* exceptions raised while the body is read
CliStreamExceptions ==
    { Exc("ChunkedEncodingError", "cause1"), Exc("KeyboardInterrupt", "") }

\* the retries parameter of HTTPClient.__init__ when the caller names none
DefaultRetries == 3

\* one call of print
Line(text) == [ tag |-> "print", text |-> text ]

\* parser.print_help(), print("\n") and show_examples
HelpOutput ==
    << Line(<< "usage: " >>), Line(<< "\n" >>), Line(<< "\nExamples:\n" >>) >>

\* the three lines of the except json.JSONDecodeError clause
InvalidJsonOutput ==
    << Line(<< "Error: Invalid JSON data" >>),
       Line(<< "Make sure your JSON data is properly formatted." >>),
       Line(<< "Example: '{\"key\": \"value\"}'" >>) >>

\* the program has ended with this exit code
Exited(code, stderr) == [ cli EXCEPT !.pc = "exit", !.code = code, !.stderr = stderr ]

\* the program has ended inside main, "args" being what parse_args made of argv
ExitedWith(args, code, stderr) ==
    [ cli EXCEPT !.pc = "exit", !.args = args, !.code = code, !.stderr = stderr ]

\* "if hasattr(args, 'data') and args.data"
DataIsSent(args) == args.has_data /\ args.data_given /\ Len(args.data) > 0

\* kwargs after 'kwargs["json"] = json.loads(args.data)'
WithJson(kw, args) ==
    IF DataIsSent(args)
    THEN [ kw EXCEPT !.has_json = TRUE, !.json = JsonLoads(args.data).value ]
    ELSE kw

\* variant: "command == 'HELP'"
IsHelp_NameOnly(args) == Upper(args.command) = HELP

\* "not command or command == 'HELP'"
IsHelp(args) == Len(args.command) = 0 \/ Upper(args.command) = HELP

CliInit ==
    /\ client = None
    /\ Constructed
    /\ \E argv \in ArgvInputs, entry \in EntryInputs :
          cli = [ pc |-> "start", entry |-> entry, suppress |-> (entry = "call"),
                  argv |-> argv, args |-> UsageError(""), kwargs |-> NoKwargs,
                  code |-> 0, stderr |-> "none" ]

\* main from parse_args to the call of the client
CliMain ==
    /\ cli.pc = "start"
    /\ LET args == Argparse(cli.argv)
       IN  IF ~args.ok
           THEN /\ cli' = ExitedWith(args, 2, "usage")
                /\ UNCHANGED << client, stdout >>
           ELSE IF IsHelp(args)
           THEN /\ cli' = ExitedWith(args, 0, "none")
                /\ stdout' = IF cli.suppress THEN stdout ELSE stdout \o HelpOutput
                /\ UNCHANGED client
           ELSE /\ client' = NewClient(args.timeout, DefaultRetries, args.verbose,
                                       IF args.has_progress THEN args.progress ELSE FALSE)
                /\ IF DataIsSent(args) /\ ~JsonLoads(args.data).ok
                   THEN /\ cli' = ExitedWith(args, 1, "none")
                        /\ stdout' = stdout \o InvalidJsonOutput
                   ELSE /\ cli' = [ cli EXCEPT
                                      !.pc = "dispatch",
                                      !.args = args,
                                      !.kwargs = WithHeaders(WithJson(NoKwargs, args),
                                                             ParseHeaders(<< >>, args.header)) ]
                        /\ UNCHANGED stdout
    /\ UNCHANGED << pc, method, url, kwargs, attempt, response, progress_bar, bars,
                    content, yielded, requests_log, result >>

\* HTTPClient has a method called "name" that sends a request
HasHelper(name) ==
    \E idx \in 1..Len(allowed_methods) : Lower(allowed_methods[idx]) = name

\* the method name the helper of HTTPClient called "name" passes on
HelperMethod(name) ==
    allowed_methods[CHOOSE idx \in 1..Len(allowed_methods) : Lower(allowed_methods[idx]) = name]

\* the classes an "except HTTPClientError" clause catches
IsHTTPClientError(cls) == cls \in { "HTTPClientError", "HTTPConnectionError", "ResponseError" }

\* an exception leaves main: "python -m PyFetch" answers an interrupt; an
\* interrupt nobody answers ends the interpreter as SIGINT does; every other
\* exception ends it with a traceback and exit code 1
Uncaught(cls, out) ==
    IF cls = "KeyboardInterrupt" /\ cli.entry = "module"
    THEN /\ cli' = Exited(0, "none")
         /\ stdout' = Append(out, Line(<< "\nOperation cancelled by user" >>))
    ELSE IF cls = "KeyboardInterrupt"
    THEN /\ cli' = Exited(128 + 2, "KeyboardInterrupt")
         /\ stdout' = out
    ELSE /\ cli' = Exited(1, "traceback")
         /\ stdout' = out

\* "getattr(client, command.lower())(args.url, **kwargs)"; getattr raises
\* AttributeError for a name HTTPClient does not have
CliDispatch ==
    /\ cli.pc = "dispatch"
    /\ IF HasHelper(Lower(Upper(cli.args.command)))
       THEN /\ MakeRequest(HelperMethod(Lower(Upper(cli.args.command))), cli.args.url, "unset")
            /\ cli' = [ cli EXCEPT !.pc = "core" ]
       ELSE /\ Uncaught("AttributeError", stdout)
            /\ UNCHANGED << client, pc, method, url, kwargs, attempt, response,
                            progress_bar, bars, content, yielded, requests_log, result >>

\* the client call raised
CliCatch ==
    /\ cli.pc = "core"
    /\ pc = "raised"
    /\ IF IsHTTPClientError(result.cls)
       THEN /\ cli' = Exited(1, "none")
            /\ stdout' = Append(stdout, Line(<< "Error: " >> \o result.message))
       ELSE Uncaught(result.cls, stdout)
    /\ UNCHANGED << client, pc, method, url, kwargs, attempt, response, progress_bar,
                    bars, content, yielded, requests_log, result >>

RECURSIVE HeaderLines(_)
\* "for key, value in response.headers.items(): print(...)"
HeaderLines(headers) ==
    IF Len(headers) = 0 THEN << >>
    ELSE << Line(<< Head(headers)[1], ": " >> \o Head(headers)[2]) >>
            \o HeaderLines(Tail(headers))

\* the client call returned a response: status and headers are printed
CliWriteHead ==
    /\ cli.pc = "core"
    /\ pc = "returned"
    /\ result.kind = "Response"
    /\ stdout' = stdout \o << Line(<< "Status Code: " >> \o IntStr(response.status_code)),
                              Line(<< "\nHeaders:" >>) >>
                        \o HeaderLines(response.headers)
    /\ cli' = [ cli EXCEPT !.pc = "body" ]
    /\ UNCHANGED << client, pc, method, url, kwargs, attempt, response, progress_bar,
                    bars, content, yielded, requests_log, result >>

\* response.text on a response whose body is still on the wire: it arrives
CliBodyArrives(body) ==
    /\ cli.pc = "body"
    /\ ~response.consumed
    /\ response' = [ response EXCEPT !.content = body, !.consumed = TRUE ]
    /\ result' = [ result EXCEPT !.value = response' ]
    /\ UNCHANGED << client, pc, method, url, kwargs, attempt, progress_bar, bars,
                    content, yielded, requests_log, stdout, cli >>

\* response.text on a response whose body is still on the wire: reading raises
CliBodyRaises(e) ==
    /\ cli.pc = "body"
    /\ ~response.consumed
    /\ Uncaught(e.cls, stdout)
    /\ UNCHANGED << client, pc, method, url, kwargs, attempt, response, progress_bar,
                    bars, content, yielded, requests_log, result >>

\* "if response.text.strip()"
HasBodySection(text) == Len(Strip(text)) > 0

\* the prints of the body section
BodyOutput(text) ==
    IF HasBodySection(text)
    THEN << Line(<< "\nResponse Body:" >>),
            Line(IF JsonLoads(text).ok THEN JsonDumps(JsonLoads(text).value, 0) ELSE text) >>
    ELSE << >>

\* the body is printed and main returns
CliWriteBody ==
    /\ cli.pc = "body"
    /\ response.consumed
    /\ stdout' = stdout \o BodyOutput(response.content)
    /\ cli' = Exited(0, "none")
    /\ UNCHANGED << client, pc, method, url, kwargs, attempt, response, progress_bar,
                    bars, content, yielded, requests_log, result >>

CliNext ==
    \/ CliMain
    \/ CliDispatch
    \/ \E e \in CliTransportExceptions : TransportRaises(e) /\ UNCHANGED cli
    \/ \E status \in CliStatusInputs : RespondsError(status) /\ UNCHANGED cli
    \/ \E status \in CliStatusInputs, headers \in CliHeaderInputs, body \in CliBodyInputs :
          RespondsReturn(status, headers, body) /\ UNCHANGED cli
    \/ \E status \in CliStatusInputs, headers \in CliHeaderInputs :
          RespondsBadLength(status, headers) /\ UNCHANGED cli
    \/ \E status \in CliStatusInputs, headers \in CliHeaderInputs :
          RespondsStream(status, headers) /\ UNCHANGED cli
    \/ \E chunk \in CliChunkInputs : StreamChunk(chunk) /\ UNCHANGED cli
    \/ StreamEnd /\ UNCHANGED cli
    \/ \E e \in CliStreamExceptions : StreamRaises(e) /\ UNCHANGED cli
    \/ CliCatch
    \/ CliWriteHead
    \/ \E body \in CliBodyInputs : CliBodyArrives(body)
    \/ \E e \in CliStreamExceptions : CliBodyRaises(e)
    \/ CliWriteBody

CliSpec == CliInit /\ [][CliNext]_vars

----------------------------------------------------------------------------
(* Vocabulary of the properties about the command line *)

CliEnded == cli.pc = "exit"

IsCliLine(entry) == entry.tag = "print"

\* what cli.py and __main__.py have printed, without the [VERBOSE] lines
\* of the client
CliLines == SelectSeq(stdout, IsCliLine)

\* the request core ended with one of its three classified errors
CoreClassifiedError ==
    /\ pc = "raised"
    /\ result.cause # NoExc
    /\ result.cls \in { "HTTPConnectionError", "ResponseError", "HTTPClientError" }

CoreReturnedResponse == pc = "returned" /\ result.kind = "Response"

\* the program was ended by an interrupt nobody caught
EndedByInterrupt == cli.stderr = "KeyboardInterrupt"

----------------------------------------------------------------------------
(* C14 *)

\* C14: when the program has ended after the request core raised a
\* classified error, the command line has printed the one line
\* "Error: <message>" and nothing else, and the exit code is 1; when it has
\* ended after the core returned a response (and no interrupt arrived), the
\* exit code is 0.
C14_ErrorLineOrSuccess ==
    CliEnded =>
       /\ CoreClassifiedError
             => /\ CliLines = << Line(<< "Error: " >> \o result.message) >>
                /\ cli.code = 1
       /\ (CoreReturnedResponse /\ ~EndedByInterrupt) => cli.code = 0

----------------------------------------------------------------------------
(* C15 *)

\* the command line names POST, PUT or PATCH, passes parse_args and carries
\* a -d value json.loads rejects
DataNotJson ==
    /\ cli.pc \notin { "library", "start" }
    /\ cli.args.ok
    /\ cli.args.has_data
    /\ cli.args.data_given
    /\ ~JsonLoads(cli.args.data).ok

\* C15: once main has parsed a POST, PUT or PATCH command line whose -d
\* value is not parseable JSON, the program has ended with exit code 1,
\* "Error: Invalid JSON data" is the first thing it printed, the request
\* core was never entered and the transport never called.
C15_InvalidJsonStopsAtCli ==
    DataNotJson =>
       /\ pc = "idle"
       /\ requests_log = << >>
       /\ CliEnded
       /\ cli.code = 1
       /\ Len(CliLines) > 0
       /\ CliLines[1] = Line(<< "Error: Invalid JSON data" >>)

----------------------------------------------------------------------------
(* C16 *)

\* the command given is no casing of HELP or of one of the seven methods
UnsupportedCommand ==
    /\ cli.pc # "library"
    /\ Len(cli.argv.command) > 0
    /\ Upper(cli.argv.command) \notin AllowedMethodSet \cup { << "H", "E", "L", "P" >> }

IsErrorLine(entry) == entry.tag = "print" /\ entry.text[1] = "Error: "

\* C16 as stated: when the program has ended for a command that is an
\* unsupported method, the exit code is 1 and a line that starts with
\* "Error: " is on standard output.
C16_UnsupportedMethodExitsOne ==
    (CliEnded /\ UnsupportedCommand)
       => /\ cli.code = 1
          /\ \E idx \in 1..Len(stdout) : IsErrorLine(stdout[idx])

\* the Invalid-Method error of make_request
InvalidMethodRaised ==
    /\ pc = "raised"
    /\ result.cls = "ValueError"
    /\ result.message = << "Unsupported HTTP method" >>

\* C16, amended: once main has run for a command that is an unsupported
\* method, parse_args has ended the program with exit code 2 and its usage
\* error on stderr, nothing is on standard output, no client was built and
\* the transport was never called; make_request never raises its
\* Invalid-Method error under the command line, every method dispatched
\* being an allowed one; that error is a ValueError, which the
\* "except HTTPClientError" clause does not catch.
C16_UnsupportedCommandEndsInParser ==
    /\ (cli.pc # "start" /\ UnsupportedCommand)
          => /\ CliEnded
             /\ cli.code = 2
             /\ cli.stderr = "usage"
             /\ cli.args.error = "invalid choice"
             /\ stdout = << >>
             /\ client = None
             /\ pc = "idle"
             /\ requests_log = << >>
    /\ ~InvalidMethodRaised
    /\ pc # "idle" => MethodAllowed
    /\ ~IsHTTPClientError("ValueError")

\* C16 case: TRACE with a url has been given and the program has ended
C16_Witness ==
    /\ CliEnded
    /\ cli.argv.command = << "T", "R", "A", "C", "E" >>
    /\ cli.argv.url # ""
    /\ cli.code = 2

----------------------------------------------------------------------------
(* C17 *)

\* the command line is HELP (or its alias) alone, or is empty
HelpInvocation ==
    /\ cli.pc # "library"
    /\ cli.argv.command \in { << >>, << "H", "E", "L", "P" >>, << "h", "e", "l", "p" >> }
    /\ cli.argv.url = ""
    /\ cli.argv.header = << >>
    /\ ~cli.argv.verbose
    /\ ~cli.argv.progress
    /\ ~cli.argv.data_given

\* C17: once main has run for HELP or for an empty command line, the
\* program has ended normally with exit code 0, no client was built and the
\* transport was never called; standard output holds the usage text and the
\* examples, or nothing at all when suppress_output was set.
C17_HelpEndsNormally ==
    (cli.pc # "start" /\ HelpInvocation)
       => /\ CliEnded
          /\ cli.code = 0
          /\ cli.stderr = "none"
          /\ client = None
          /\ pc = "idle"
          /\ requests_log = << >>
          /\ cli.suppress => stdout = << >>
          /\ ~cli.suppress
                => stdout = << [ tag |-> "print", text |-> << "usage: " >> ],
                               [ tag |-> "print", text |-> << "\n" >> ],
                               [ tag |-> "print", text |-> << "\nExamples:\n" >> ] >>

\* C17 case: main(suppress_output=True) has ended for the command HELP
C17_Witness ==
    /\ CliEnded
    /\ cli.argv.command = << "H", "E", "L", "P" >>
    /\ HelpInvocation
    /\ cli.suppress
    /\ stdout = << >>

----------------------------------------------------------------------------
(* C18 *)

\* the body has a character that is not whitespace
NonBlank(text) == \E idx \in 1..Len(text) : text[idx] \notin { " ", "\t", "\n" }

\* how many times ch stands in str up to position "upto"
CountUpTo(str, ch, upto) == Cardinality({ idx \in 1..upto : str[idx] = ch })

\* the number of spaces that follow position "at"
MarginAfter(str, at) ==
    LET solid == { idx \in (at + 1)..Len(str) : str[idx] # " " }
    IN  IF solid = { } THEN Len(str) - at
        ELSE (CHOOSE idx \in solid : \A other \in solid : idx <= other) - at - 1

\* every line of the text stands 4 spaces to the right for each object
\* that is open where the line begins, a closing brace standing with the
\* line that opened its object
FourSpaceIndented(str) ==
    \A at \in 1..Len(str) :
        str[at] = "\n"
           => LET open   == CountUpTo(str, "{", at) - CountUpTo(str, "}", at)
                  margin == MarginAfter(str, at)
                  closes == at + margin + 1 <= Len(str) /\ str[at + margin + 1] = "}"
              IN  margin = 4 * (IF closes THEN open - 1 ELSE open)

\* the program has ended after printing a response whose body it had
SuccessPrinted == CliEnded /\ CoreReturnedResponse /\ response.consumed

\* C18: when the program has ended after printing a response, what it
\* printed is, in this order: "Status Code: <code>"; a blank line and
\* "Headers:"; one "Key: Value" line for each response header; and, exactly
\* when the body has a character that is not whitespace, "Response Body:"
\* followed, as the last thing printed, by the body: re-formatted with 4
\* spaces of indentation per nesting level when it parses as JSON (the
\* same JSON value), verbatim otherwise.
C18_SuccessOutput ==
    SuccessPrinted =>
       LET text    == response.content
           headers == response.headers
           count   == Len(headers)
           lines   == CliLines
           parsed  == JsonLoads(text)
       IN  /\ Len(lines) >= count + 2
           /\ Head(lines[1].text) = "Status Code: "
           /\ IntOf(Tail(lines[1].text)) = response.status_code
           /\ lines[2].text = << "\nHeaders:" >>
           /\ \A idx \in 1..count :
                 lines[2 + idx].text = << headers[idx][1], ": " >> \o headers[idx][2]
           /\ ~NonBlank(text) => Len(lines) = count + 2
           /\ NonBlank(text)
                 => /\ Len(lines) = count + 4
                    /\ lines[count + 3].text = << "\nResponse Body:" >>
                    /\ ~parsed.ok => lines[count + 4].text = text
                    /\ parsed.ok
                          => /\ JsonLoads(lines[count + 4].text).ok
                             /\ JsonLoads(lines[count + 4].text).value = parsed.value
                             /\ FourSpaceIndented(lines[count + 4].text)
                    /\ text = << "{", "\"", "a", "\"", ":", "1", "}" >>
                          => lines[count + 4].text
                                = << "{", "\n", " ", " ", " ", " ", "\"", "a", "\"", ":", " ",
                                     "1", "\n", "}" >>
                    /\ text = << "p", "l", "a", "i", "n", " ", "t", "e", "x", "t" >>
                          => lines[count + 4].text = text

\* C18 case: a response with two headers and a nested JSON body has been
\* printed
C18_Witness ==
    /\ SuccessPrinted
    /\ Len(response.headers) = 2
    /\ JsonLoads(response.content).ok
    /\ CountUpTo(response.content, "{", Len(response.content)) = 3
    /\ Len(CliLines) = 6

----------------------------------------------------------------------------
(* C19 *)

\* the command given is some casing of HELP or of one of the seven methods,
\* and what follows it on the command line suits that command
CommandInSomeCasing ==
    /\ cli.pc # "library"
    /\ Len(cli.argv.command) > 0
    /\ Upper(cli.argv.command) \in AllowedMethodSet \cup { << "H", "E", "L", "P" >> }
    /\ IF Upper(cli.argv.command) = << "H", "E", "L", "P" >>
       THEN HelpInvocation
       ELSE /\ cli.argv.url # ""
            /\ cli.argv.progress => Upper(cli.argv.command) = << "G", "E", "T" >>
            /\ cli.argv.data_given
                  => Upper(cli.argv.command)
                        \in { << "P", "O", "S", "T" >>, << "P", "U", "T" >>,
                              << "P", "A", "T", "C", "H" >> }

\* C19: a command given in any casing is accepted by the parser and is
\* dispatched as its upper-case form is: HELP ends in the help output, a
\* method sends its request with the upper-case method name.
C19_AnyCasingAccepted ==
    (cli.pc # "start" /\ CommandInSomeCasing)
       => /\ cli.args.ok
          /\ cli.stderr # "usage"
          /\ Upper(cli.argv.command) = << "H", "E", "L", "P" >> => (CliEnded /\ cli.code = 0)
          /\ (Upper(cli.argv.command) # << "H", "E", "L", "P" >> /\ pc # "idle")
                => method = Upper(cli.argv.command)

----------------------------------------------------------------------------
(* C20 *)

\* the command is one of the six methods other than GET, by name or alias,
\* and --progress is passed with it
ProgressWithOtherCommand ==
    /\ cli.pc # "library"
    /\ cli.argv.progress
    /\ \E name \in AllowedMethodSet \ { << "G", "E", "T" >> } :
          cli.argv.command \in { name, Lower(name) }

\* C20: once main has run for a command other than GET with --progress,
\* the program has ended in parse_args (exit code 2, usage error on stderr)
\* with no client built and no request issued; and whenever the command
\* line has built a client, show_progress is set on it exactly when the
\* command is GET and --progress was given.
C20_ProgressOnlyForGet ==
    /\ (cli.pc # "start" /\ ProgressWithOtherCommand)
          => /\ CliEnded
             /\ cli.code = 2
             /\ cli.stderr = "usage"
             /\ client = None
             /\ pc = "idle"
             /\ requests_log = << >>
    /\ (cli.pc \notin { "library", "start" } /\ client # None)
          => (client.show_progress
                <=> (Upper(cli.argv.command) = << "G", "E", "T" >> /\ cli.argv.progress))

\* C20 case: POST with a url and --progress has been given and the program
\* has ended
C20_Witness ==
    /\ CliEnded
    /\ cli.argv.command = << "P", "O", "S", "T" >>
    /\ cli.argv.url # ""
    /\ cli.argv.progress
    /\ ~cli.argv.data_given
    /\ cli.code = 2

----------------------------------------------------------------------------
(* C21 *)

\* the chunks among the first "upto" yielded that are not empty
NonEmptyYielded(upto) == { idx \in 1..upto : Len(yielded[idx]) > 0 }

\* the Streaming Reader is running, or has run to the end, with a reporter
ReaderWithReporter == pc \in { "stream", "returned" } /\ progress_bar # 0

\* C21: while the Streaming Reader reads with a reporter present, and when
\* it has read to the end, the lengths forwarded to the reporter add up to
\* the length of the buffer, the reporter was updated once for each chunk
\* yielded that is not empty (an empty chunk reaches neither buffer nor
\* reporter), the buffer is the concatenation of the chunks yielded, and at
\* completion the forwarded total is the number of bytes returned.
C21_EmptyChunksSkipped ==
    ReaderWithReporter =>
       LET bar == bars[progress_bar]
       IN  /\ bar.n = Len(content)
           /\ bar.updates = Cardinality(NonEmptyYielded(Len(yielded)))
           /\ content = Concat(yielded)
           /\ pc = "returned"
                 => /\ result.kind = "Response"
                    /\ bar.n = Len(result.value.content)

\* C21 case: a stream with an empty and a non-empty chunk was read to the
\* end with a reporter, and fewer bytes came than content-length declared
C21_Witness ==
    /\ pc = "returned"
    /\ progress_bar # 0
    /\ \E idx \in 1..Len(yielded) : Len(yielded[idx]) = 0
    /\ bars[progress_bar].updates = 1
    /\ bars[progress_bar].n # bars[progress_bar].total

----------------------------------------------------------------------------
(* C22 *)

\* the reporter of the attempt whose body is being read, or was read to the end
ReaderBar == bars[progress_bar]

\* C22: a reporter made for a GET is still open while the Streaming Reader
\* forwards chunk lengths to it, and has been closed exactly once when
\* make_request has returned the response of a stream read to the end (the
\* close comes after the last update and with the return); from its close
\* on a reporter gets no update and no second close.
C22_ClosedOnceAfterLastUpdate ==
    /\ []((pc = "stream" /\ progress_bar # 0) => ReaderBar.closed = 0)
    /\ []((pc = "returned" /\ progress_bar # 0)
             => (ReaderBar.closed = 1 /\ ReaderBar.n = Len(result.value.content)))
    /\ [][\A idx \in 1..Len(bars) :
             bars[idx].closed >= 1 => bars'[idx] = bars[idx]]_vars
    /\ [][\A idx \in 1..Len(bars) :
             bars'[idx].closed # bars[idx].closed
                => /\ bars'[idx].closed = 1
                   /\ bars'[idx].n = bars[idx].n
                   /\ bars'[idx].updates = bars[idx].updates
                   /\ pc = "stream" /\ pc' = "returned"]_vars

\* C22 case: a stream of two chunks was forwarded to a reporter and read to
\* the end, and make_request has returned
C22_Witness ==
    /\ pc = "returned"
    /\ progress_bar # 0
    /\ bars[progress_bar].updates = 2
    /\ bars[progress_bar].closed = 1

----------------------------------------------------------------------------
(* C23 *)

\* the attempt's content-length header is absent, or int() rejects it
LengthAbsentOrUnparseable(headers) ==
    ~HasHeader(headers, "content-length")
       \/ ~IsIntLiteral(HeaderValue(headers, "content-length"))

\* C23: on a progress-tracked GET no attempt ends in an error of reading
\* content-length; when the header of a good response is absent or not an
\* integer, the body is streamed without a reporter.
C23_LengthDefaultsToZero ==
    /\ \A k \in 1..Attempts : requests_log[k].exc.cls # "ValueError"
    /\ ~(pc = "raised" /\ MethodAllowed /\ result.cls = "ValueError")
    /\ (pc = "stream" /\ LengthAbsentOrUnparseable(response.headers)) => progress_bar = 0

----------------------------------------------------------------------------
(* C24 *)

\* the transport call of attempt k came back with a status that is no error
GoodStatus(k) == requests_log[k].status # 0 /\ ~(400 <= requests_log[k].status /\ requests_log[k].status < 600)

\* the Streaming Reader was entered for attempt k
ReaderEntered(k) ==
    \/ requests_log[k].exc.cls \in { "ChunkedEncodingError", "ConnectionError", "KeyboardInterrupt" }
    \/ /\ k = Attempts
       /\ requests_log[k].exc = NoExc
       /\ \/ pc = "stream"
          \/ pc = "returned" /\ response.consumed /\ response.content = content

\* C24: every attempt of a GET is sent with stream forced on, every attempt
\* of another method with the stream option the caller passed; the
\* Streaming Reader is entered for an attempt exactly when the attempt got
\* a good status, the method is GET and show_progress is set, and then the
\* buffer replaces the body; otherwise a good response is returned as the
\* transport gave it, no reporter having been asked for.
C24_StreamingOnlyForTrackedGet ==
    /\ \A k \in 1..Attempts :
          /\ Upper(method) = << "G", "E", "T" >> => requests_log[k].stream = "True"
          /\ Upper(method) # << "G", "E", "T" >>
                => requests_log[k].stream = kwargs.stream /\ kwargs.stream \in { "unset", "False" }
          /\ (GoodStatus(k) /\ Upper(method) = << "G", "E", "T" >> /\ client.show_progress)
                => ReaderEntered(k)
    /\ pc = "stream"
          => /\ GoodStatus(Attempts)
             /\ Upper(method) = << "G", "E", "T" >>
             /\ client.show_progress
    /\ (pc = "returned" /\ result.kind = "Response"
           /\ ~(Upper(method) = << "G", "E", "T" >> /\ client.show_progress))
          => /\ bars = << >>
             /\ yielded = << >>
             /\ content = << >>
             /\ response.consumed <=> Upper(method) # << "G", "E", "T" >>

----------------------------------------------------------------------------
(* C25 *)

\* the request core has ended a command-line run with an interrupt that
\* main has not yet let pass
InterruptPending ==
    /\ cli.pc = "core"
    /\ pc = "raised"
    /\ result.cls = "KeyboardInterrupt"

\* C25: from the moment an interrupt has ended the request core of a
\* command-line run, nothing more is written to standard output.
C25_NothingPrintedAfterInterrupt ==
    [][InterruptPending => stdout' = stdout]_vars

----------------------------------------------------------------------------
(* C26: clients constructed with a retry budget of zero or below *)

\* __init__ stores the retries argument as it is given: zero and negative
\* numbers are taken like any other
BudgetInit ==
    /\ \E retries \in (0 - MaxDeficit)..1, verbose \in BOOLEAN, show_progress \in BOOLEAN :
          client = NewClient(30, retries, verbose, show_progress)
    /\ Constructed
    /\ cli = NoCli

BudgetSpec == BudgetInit /\ [][Next]_vars

NoBudget == client.retries <= 0

\* C26: a client whose retry budget is zero or negative is constructed
\* without complaint; a call with an allowed method then never invokes the
\* transport and returns None without raising, which is none of a returned
\* response, a connection error, a response error, a request-failed error
\* or a fail-fast rejection.
C26_NoBudgetReturnsNone ==
    (NoBudget /\ pc # "idle" /\ MethodAllowed) =>
        /\ requests_log = << >>
        /\ bars = << >>
        /\ pc \in { "loop", "returned" }
        /\ pc = "returned" => result = None
        /\ pc = "loop" => result.kind = "pending"

C26_Witness ==
    /\ client.retries < 0
    /\ MethodAllowed
    /\ pc = "returned"
    /\ result = None
    /\ requests_log = << >>

----------------------------------------------------------------------------
(* C27 *)

\* attempt k ended with an exception that none of the three except clauses
\* names: no connection failure, no HTTP error, no other request exception
OutsideCaughtClasses(k) ==
    /\ requests_log[k].exc # NoExc
    /\ FailureClass(requests_log[k]) = "unclassified"

\* C27: an exception of none of the three caught classes, raised during
\* attempt k, is neither retried nor re-classified: the call has ended with
\* that very exception (its class and text, no wrapping cause), the loop
\* counter has not advanced and the transport has been invoked exactly k
\* times; on attempt 1 that is once, whatever the budget.
C27_UncaughtPropagatesUnchanged ==
    \A k \in 1..Attempts :
        OutsideCaughtClasses(k)
        => /\ Attempts = k
           /\ attempt = k - 1
           /\ pc = "raised"
           /\ result = [ kind    |-> "raised",
                         cls     |-> requests_log[k].exc.cls,
                         message |-> << requests_log[k].exc.msg >>,
                         cause   |-> NoExc ]

\* C27 case: the transport raises an exception that is no RequestException
\* on attempt 1 of a budget of MaxRetries
C27_Witness ==
    /\ client.retries = MaxRetries
    /\ client.retries > 1
    /\ Attempts = 1
    /\ requests_log[1].status = 0
    /\ requests_log[1].exc.cls = "HTTPClientError"
    /\ pc = "raised"
    /\ result.cls = "HTTPClientError"
    /\ result.cause = NoExc

----------------------------------------------------------------------------
(* C28 *)

\* attempt k got a good response and then failed, with a request exception,
\* while the body was read
StreamFailed(k) ==
    /\ GoodStatus(k)
    /\ requests_log[k].exc.cls \in ConnectionClasses \cup OtherRequestClasses

\* C28: a failure while the body of a successful progress-tracked GET is
\* streamed is handled like a failure of the transport call.  On an attempt
\* that is not the last of the budget the whole request is issued again and
\* the reader starts from an empty buffer, so a returned body holds the
\* chunks of the returning attempt alone; on the last attempt the failure
\* is raised as the connection error or the request-failed error of its
\* class; the transport is never invoked more often than the budget.
C28_StreamFailureRetried ==
    /\ Attempts <= client.retries
    /\ \A k \in 1..Attempts :
          StreamFailed(k) =>
             /\ IsGet(method) /\ client.show_progress
             /\ IF k < client.retries
                THEN \/ k < Attempts
                     \/ /\ pc = "loop"
                        /\ attempt = k
                        /\ result.kind = "pending"
                        /\ content = << >>
                        /\ yielded = << >>
                ELSE /\ k = Attempts
                     /\ pc = "raised"
                     /\ result = ExpectedError(requests_log[k], url)
    /\ (pc = "returned" /\ result.kind = "Response" /\ IsGet(method) /\ client.show_progress)
          => /\ result.value.content = Concat(yielded)
             /\ ~StreamFailed(Attempts)

\* C28 case: the body read of attempt 1 fails, the request is issued again
\* and attempt 2 returns a body
C28_Witness ==
    /\ pc = "returned"
    /\ Attempts = 2
    /\ StreamFailed(1)
    /\ result.kind = "Response"
    /\ Len(result.value.content) > 0

----------------------------------------------------------------------------
(* C29 *)

\* the reporters instantiated so far that have not been closed
OpenReporters == { idx \in 1..Len(bars) : bars[idx].closed = 0 }

\* C29: at no time is more than one progress reporter open, and when the
\* call has ended, by a return or by an error, every reporter that was
\* instantiated during it has been closed.
C29_ReportersClosed ==
    /\ Cardinality(OpenReporters) <= 1
    /\ Terminated => OpenReporters = { }

----------------------------------------------------------------------------
(* Two concurrent calls of make_request on one client instance.  The       *)
(* variables of the call hold the frame of the thread that is running; the *)
(* frame of the other thread is kept aside until the threads are switched. *)
(* The client object, the reporters and standard output belong to both.    *)

\* the locals of one make_request call
ThisFrame ==
    [ pc           |-> pc,
      method       |-> method,
      url          |-> url,
      kwargs       |-> kwargs,
      attempt      |-> attempt,
      response     |-> response,
      progress_bar |-> progress_bar,
      content      |-> content,
      yielded      |-> yielded,
      requests_log |-> requests_log,
      result       |-> result ]

\* the frame of a thread that has not called make_request yet
IdleFrame ==
    [ pc           |-> "idle",
      method       |-> << >>,
      url          |-> "",
      kwargs       |-> [ stream |-> "unset" ],
      attempt      |-> 0,
      response     |-> None,
      progress_bar |-> 0,
      content      |-> << >>,
      yielded      |-> << >>,
      requests_log |-> << >>,
      result       |-> [ kind |-> "pending" ] ]

\* "overlapped" records that the threads were once switched while both
\* calls were under way
Threads(running, other, overlapped) ==
    [ pc |-> "threads", running |-> running, other |-> other,
      overlapped |-> overlapped ]

UnderWay(position) == position \in { "loop", "stream" }

\* the url each thread asks for
ThreadUrl(thread) == IF thread = 1 THEN "https://a.test/x" ELSE "https://b.test/y"

ConcInit ==
    /\ \E retries \in 0..MaxRetries, show_progress \in BOOLEAN :
          client = NewClient(30, retries, FALSE, show_progress)
    /\ Constructed
    /\ cli = Threads(1, IdleFrame, FALSE)

\* variant: the loop counter kept on the instance, not in the frame
Switch_SharedCounter ==
    /\ cli.pc = "threads"
    /\ cli.other.pc \notin { "returned", "raised" }
    /\ cli' = Threads(3 - cli.running, ThisFrame,
                    cli.overlapped \/ (UnderWay(pc) /\ UnderWay(cli.other.pc)))
    /\ pc' = cli.other.pc
    /\ method' = cli.other.method
    /\ url' = cli.other.url
    /\ kwargs' = cli.other.kwargs
    /\ attempt' = attempt
    /\ response' = cli.other.response
    /\ progress_bar' = cli.other.progress_bar
    /\ content' = cli.other.content
    /\ yielded' = cli.other.yielded
    /\ requests_log' = cli.other.requests_log
    /\ result' = cli.other.result
    /\ UNCHANGED << client, bars, stdout >>

\* the running thread is suspended between two steps and the other thread,
\* if its call has not ended, goes on: every local of make_request
\* (method, url, kwargs, attempt, response, progress_bar, and the frame of
\* _stream_response) is the thread's own
Switch ==
    /\ cli.pc = "threads"
    /\ cli.other.pc \notin { "returned", "raised" }
    /\ cli' = Threads(3 - cli.running, ThisFrame,
                    cli.overlapped \/ (UnderWay(pc) /\ UnderWay(cli.other.pc)))
    /\ pc' = cli.other.pc
    /\ method' = cli.other.method
    /\ url' = cli.other.url
    /\ kwargs' = cli.other.kwargs
    /\ attempt' = cli.other.attempt
    /\ response' = cli.other.response
    /\ progress_bar' = cli.other.progress_bar
    /\ content' = cli.other.content
    /\ yielded' = cli.other.yielded
    /\ requests_log' = cli.other.requests_log
    /\ result' = cli.other.result
    /\ UNCHANGED << client, bars, stdout >>

ConcMethodInputs == { GET, << "P", "O", "S", "T" >> }

ConcHeaderInputs == { << >>, << << "content-length", << "1", "2", "x" >> >> >> }

ConcTransportExceptions ==
    { Exc("ConnectionError", "cause1"), Exc("ReadTimeout", "cause1") }

ConcNext ==
    \/ \E m \in ConcMethodInputs :
          MakeRequest(m, ThreadUrl(cli.running), "unset") /\ UNCHANGED cli
    \/ \E e \in ConcTransportExceptions : TransportRaises(e) /\ UNCHANGED cli
    \/ RespondsError(400) /\ UNCHANGED cli
    \/ RespondsReturn(200, << >>, << 7 >>) /\ UNCHANGED cli
    \/ \E headers \in ConcHeaderInputs : RespondsBadLength(200, headers) /\ UNCHANGED cli
    \/ \E headers \in ConcHeaderInputs : RespondsStream(200, headers) /\ UNCHANGED cli
    \/ StreamChunk(<< 1 >>) /\ UNCHANGED cli
    \/ StreamEnd /\ UNCHANGED cli
    \/ StreamRaises(Exc("ChunkedEncodingError", "cause1")) /\ UNCHANGED cli
    \/ LoopExit /\ UNCHANGED cli
    \/ Switch

ConcSpec == ConcInit /\ [][ConcNext]_vars

----------------------------------------------------------------------------
(* C30 *)

\* the two calls: the one whose thread is running and the one set aside
ConcurrentCalls == { ThisFrame, cli.other }

CallEnded(f) == f.pc \in { "returned", "raised" }

\* the outcome that the call's own transport outcomes determine, by the
\* rules of make_request
OutcomeOfCall(f) ==
    LET log  == f.requests_log
        n    == Len(f.requests_log)
        last == f.requests_log[Len(f.requests_log)]
    IN  IF client.retries = 0
        THEN n = 0 /\ f.result = None
        ELSE /\ n >= 1
             /\ \A k \in 1..(n - 1) : FailureClass(log[k]) # "unclassified"
             /\ IF FailureClass(last) # "unclassified"
                THEN n = client.retries /\ f.result = ExpectedError(last, f.url)
                ELSE IF last.exc = NoExc
                THEN f.result.kind = "Response" /\ f.result.value.status_code = last.status
                ELSE f.result.kind = "raised" /\ f.result.cls = last.exc.cls
                        /\ f.result.cause = NoExc

\* the attempt counter of the call counts the call's own failed attempts
OwnCounter(f) ==
    CASE f.pc = "idle"   -> TRUE
      [] f.pc = "loop"   -> f.attempt = Len(f.requests_log)
      [] f.pc = "stream" -> f.attempt = Len(f.requests_log) - 1
      [] OTHER           -> f.attempt = Len(f.requests_log) - 1 \/ Len(f.requests_log) = 0

\* C30: with two calls of make_request running concurrently on one client,
\* under every interleaving of their steps each call invokes the transport
\* at most retry-budget times, for its own url only, its attempt counter
\* counts its own failed attempts, and when it has ended its outcome is the
\* one its own transport outcomes determine, whatever the other call met.
C30_ConcurrentCallsIndependent ==
    cli.pc = "threads" =>
       \A f \in ConcurrentCalls :
          /\ Len(f.requests_log) <= client.retries
          /\ \A k \in 1..Len(f.requests_log) : f.requests_log[k].url = f.url
          /\ OwnCounter(f)
          /\ CallEnded(f) => OutcomeOfCall(f)

\* C30 case: both calls are under way, one has already had a failed attempt
\* and the other goes on to use up the whole budget on failures of its own,
\* after which the first returns a response
C30_Witness ==
    /\ cli.pc = "threads"
    /\ cli.overlapped
    /\ client.retries = MaxRetries
    /\ pc = "returned"
    /\ result.kind = "Response"
    /\ Attempts = 2
    /\ cli.other.pc = "raised"
    /\ Len(cli.other.requests_log) = MaxRetries
    /\ cli.other.result.cls = "ResponseError"

=============================================================================
